---- MODULE Spec2Model ----
(***************************************************************************)
(* 3rd Eye SDK: tool registrar, live DOM watcher, schema generator and     *)
(* SDK entry point, modelled as a state machine over the browser's single  *)
(* threaded event loop.  One action is one synchronous run of code between *)
(* two suspension points.                                                  *)
(***************************************************************************)
EXTENDS Integers, Sequences, FiniteSets, TLC

(***************************************************************************)
(* Program constants.                                                      *)
(***************************************************************************)
DEBOUNCE_MS == 300
CACHE_TTL_MS == 300000

(***************************************************************************)
(* Bounds of the exploration.                                              *)
(***************************************************************************)
MaxBatch == 2
MaxTasks == 1
MaxBurst == 3
MaxSynthCalls == 2
MaxElapsed == 600

Null == "null"

(***************************************************************************)
(* The document of the SDK sessions: a catalogue of plain buttons.         *)
(* NodeOf(e) is the DOM node, ScannedOf(e) the record scanDOM() produces   *)
(* for it, SchemaOf(el) the descriptor generateLocalSchemas() derives.     *)
(*   1: <div id="panel"><button id="save">Save</button></div>              *)
(*   2: <button>Delete</button>          (no id, the only button of body)  *)
(*   3: <button>Save</button>            (no id, at the place of node 2)   *)
(***************************************************************************)
Elems == {1, 2, 3}

\* An optional string that is undefined.
Undef == "<undefined>"

\* JavaScript truthiness of an optional string.
Truthy(s) == s \notin {Undef, ""}

\* a || b on optional strings.
OrElse(a, b) == IF Truthy(a) THEN a ELSE b

\* el.id of catalogue node e ("" without an id attribute).
ElemId(e) == IF e = 1 THEN "save" ELSE ""

ElemText(e) == IF e = 2 THEN "Delete" ELSE "Save"

(***************************************************************************)
(* A DOM node as the scanner reads it:                                     *)
(*   tag              "form", "button", or another tag ("div")             *)
(*   id               el.id, "" without one                                *)
(*   ariaLabel        getAttribute("aria-label"), Undef when absent        *)
(*   text             textContent trimmed                                  *)
(*   method           form.method                                          *)
(*   fields           the named, user-facing inputs of a form              *)
(*   inForm           a button or annotated node inside a <form>           *)
(*   ignore           data-tool-ignore is present                          *)
(*   toolName         getAttribute("data-tool-name"), Undef when absent    *)
(*   toolDescription  getAttribute("data-tool-description")                *)
(*   hintAttrs        the hints whose data-tool-* attribute is present     *)
(***************************************************************************)
NodeOf(e) ==
    [tag |-> "button", id |-> ElemId(e), ariaLabel |-> Undef, text |-> ElemText(e),
     method |-> "", fields |-> <<>>, inForm |-> FALSE, ignore |-> FALSE,
     toolName |-> Undef, toolDescription |-> Undef, hintAttrs |-> {}]

\* buildSelector: "#id" when the node has an id, else the path from body,
\* where the node is the only child of its tag.
buildSelector(el) ==
    CASE el.id = "save" -> "#save"
      [] el.id = "signup" -> "#signup"
      [] el.id = "admin" -> "#admin"
      [] el.tag = "form" -> "body > form"
      [] el.tag = "button" -> "body > button"
      [] OTHER -> "body > div"

(***************************************************************************)
(* ToolAnnotations: an optional object of optional boolean hints.          *)
(*   present   the object is there                                         *)
(*   hints     the hints the object has, each with its value               *)
(***************************************************************************)
Hints == {"readOnlyHint", "destructiveHint", "idempotentHint", "openWorldHint"}

NoAnnotations == [present |-> FALSE, hints |-> [h \in {} |-> FALSE]]

Ann(f) == [present |-> TRUE, hints |-> f]

\* annotations?.[h] is true
HintOf(a, h) == a.present /\ h \in DOMAIN a.hints /\ a.hints[h]

\* toToolName on the identifying strings that occur: lower case, runs of
\* other characters than a-z0-9 to "_", one "_" trimmed at either end.
toToolName(raw) ==
    CASE raw = "Save" -> "save"
      [] raw = "save" -> "save"
      [] raw = "Delete" -> "delete"
      [] raw = "Search" -> "search"
      [] raw = "Remove filter" -> "remove_filter"
      [] raw = "signup" -> "signup"
      [] raw = "unknown_form" -> "unknown_form"
      [] raw = "unknown_button" -> "unknown_button"
      [] OTHER -> "unknown"

\* String.prototype.toUpperCase on the method strings that occur.
toUpperCase(s) ==
    CASE s = "get" -> "GET"
      [] s = "post" -> "POST"
      [] s = "delete" -> "DELETE"
      [] OTHER -> s

\* text.includes(w) for some destructive / read-only word w, on the lower
\* case of the labels that occur.
HasDestructiveWord(text) == text \in {"Delete", "Remove filter"}
HasReadOnlyWord(text) == text \in {"Search", "Remove filter"}

\* inferFormAnnotations
\* Mutant of inferFormAnnotations: DELETE is treated like any other verb.
inferFormAnnotationsNoDelete(method) ==
    LET m == toUpperCase(IF method = Undef THEN "GET" ELSE method)
    IN IF m = "GET" THEN Ann([readOnlyHint |-> TRUE, destructiveHint |-> FALSE])
       ELSE Ann([readOnlyHint |-> FALSE, openWorldHint |-> TRUE])

inferFormAnnotations(method) ==
    LET m == toUpperCase(IF method = Undef THEN "GET" ELSE method)
    IN IF m = "GET" THEN Ann([readOnlyHint |-> TRUE, destructiveHint |-> FALSE])
       ELSE IF m = "DELETE" THEN Ann([destructiveHint |-> TRUE, readOnlyHint |-> FALSE])
       ELSE Ann([readOnlyHint |-> FALSE, openWorldHint |-> TRUE])

\* inferButtonAnnotations
inferButtonAnnotations(el) ==
    LET text == OrElse(el.ariaLabel, OrElse(el.textContent, ""))
    IN IF HasDestructiveWord(text) THEN Ann([destructiveHint |-> TRUE, readOnlyHint |-> FALSE])
       ELSE IF HasReadOnlyWord(text) THEN Ann([readOnlyHint |-> TRUE, destructiveHint |-> FALSE])
       ELSE Ann([idempotentHint |-> TRUE])

\* A description is kept as the parts of its text; an override is one part.
\* Mutant of schemaFromForm: the annotations are always inferred.
schemaFromFormInferred(el) ==
    [name |-> IF el.overrideName # Undef THEN el.overrideName
              ELSE toToolName(OrElse(el.id, "unknown_form")),
     description |-> IF el.overrideDescription # Undef THEN <<el.overrideDescription>>
                     ELSE <<"Submit the form", OrElse(el.id, "unknown"),
                            IF el.method = Undef THEN "GET" ELSE el.method,
                            IF Len(el.inputs) = 1 THEN "1 field" ELSE "n fields">>,
     selector |-> el.selector,
     elementType |-> "form",
     annotations |-> inferFormAnnotations(el.method)]

\* schemaFromForm
schemaFromForm(el) ==
    [name |-> IF el.overrideName # Undef THEN el.overrideName
              ELSE toToolName(OrElse(el.id, "unknown_form")),
     description |-> IF el.overrideDescription # Undef THEN <<el.overrideDescription>>
                     ELSE <<"Submit the form", OrElse(el.id, "unknown"),
                            IF el.method = Undef THEN "GET" ELSE el.method,
                            IF Len(el.inputs) = 1 THEN "1 field" ELSE "n fields">>,
     selector |-> el.selector,
     elementType |-> "form",
     annotations |-> IF el.overrideAnnotations.present THEN el.overrideAnnotations
                     ELSE inferFormAnnotations(el.method)]

\* schemaFromButton
schemaFromButton(el) ==
    LET label == OrElse(el.ariaLabel, OrElse(el.textContent, OrElse(el.id, "unknown_button")))
    IN [name |-> IF el.overrideName # Undef THEN el.overrideName ELSE toToolName(label),
        description |-> IF el.overrideDescription # Undef THEN <<el.overrideDescription>>
                        ELSE <<"Click the button", label>>,
        selector |-> el.selector,
        elementType |-> "button",
        annotations |-> IF el.overrideAnnotations.present THEN el.overrideAnnotations
                        ELSE inferButtonAnnotations(el)]

\* The descriptor generateLocalSchemas pushes for one element.
SchemaOf(el) == IF el.type = "form" THEN schemaFromForm(el) ELSE schemaFromButton(el)

Names == {"save", "delete"}
Selectors == {"#save", "body > button"}

\* Tool schemas handed to the registrar's exported functions.
ToolSchemas ==
    {[name |-> n, description |-> <<"Click the button", n>>, selector |-> s,
      elementType |-> "button",
      annotations |-> IF n = "delete"
                      THEN Ann([destructiveHint |-> TRUE, readOnlyHint |-> FALSE])
                      ELSE Ann([idempotentHint |-> TRUE])] : n \in Names, s \in Selectors}

\* Two nodes of one document never share a selector.
ValidDoc(d) == \A a, b \in d : buildSelector(NodeOf(a)) = buildSelector(NodeOf(b)) => a = b
Docs == {d \in SUBSET Elems : ValidDoc(d)}

Urls == {"/", "/next"}
PathOf(u) == u

NoConfig == [siteId |-> "", endpoint |-> ""]
Remote == [siteId |-> "site_abc", endpoint |-> "api"]
Local == [siteId |-> "site_abc", endpoint |-> ""]
Configs == {Remote, Local, NoConfig}

VARIABLES
    hostPresent,      \* navigator.modelContext is defined
    hostTools,        \* tools the host runtime holds: name -> schema of the closure
    registeredTools,  \* registrar.ts registeredTools: name -> selector
    regLog,           \* history: the last registrar call and its host calls
    doc,              \* nodes of the catalogue that are in the document
    href,             \* window.location.href
    storage,          \* "ok" | "unavailable": typeof localStorage
    cache,            \* localStorage entries of the SDK: pathname -> schemas and age
    timers,           \* pending setTimeout callbacks of the watcher
    observer,         \* watcher.ts observer !== null
    observers,        \* MutationObservers that observe document.body
    debounceTimer,    \* watcher.ts debounceTimer: "null", or "set" to the last handle
    currentSelectors, \* watcher.ts currentSelectors
    currentUrl,       \* watcher.ts currentUrl
    wconfig,          \* watcher.ts config
    config,           \* ThirdEyeSDK.config
    initialized,      \* ThirdEyeSDK.initialized
    scannedElements,  \* ThirdEyeSDK.scannedElements
    registeredSchemas,  \* ThirdEyeSDK.registeredSchemas
    tasks,            \* suspended async functions, oldest first
    draining,         \* the event loop is running the microtask queue
    obs,              \* history: observations the claims of the SDK refer to
    burst,            \* history: the current burst of watcher signals
    synthLog,         \* history: the fetchSchemas calls made so far
    exec,             \* the invocation of a registered tool in progress
    gen,              \* a direct call of the scanner or the schema generator
    callLog           \* history: the last call of startWatching, stopWatching, init or scan

regVars == <<hostPresent, hostTools, registeredTools>>
envVars == <<doc, href, storage, cache>>
watchVars == <<timers, observer, observers, debounceTimer, currentSelectors, currentUrl, wconfig>>
sdkVars == <<config, initialized, scannedElements, registeredSchemas>>
loopVars == <<tasks, draining>>

vars == <<hostPresent, hostTools, registeredTools, regLog, doc, href, storage,
          cache, timers, observer, observers, debounceTimer, currentSelectors, currentUrl,
          wconfig, config, initialized, scannedElements, registeredSchemas, tasks,
          draining, obs, burst, synthLog, exec, gen, callLog>>

(***************************************************************************)
(* Map helpers.                                                            *)
(***************************************************************************)
EmptyMap == [k \in {} |-> Null]
Has(m, k) == k \in DOMAIN m
Put(m, k, v) == [x \in DOMAIN m \cup {k} |-> IF x = k THEN v ELSE m[x]]
Drop(m, ks) == [x \in DOMAIN m \ ks |-> m[x]]

RECURSIVE SeqOfSet(_)
SeqOfSet(S) ==
    IF S = {} THEN <<>>
    ELSE LET x == CHOOSE y \in S : TRUE IN <<x>> \o SeqOfSet(S \ {x})


(***************************************************************************)
(* registrar.ts                                                            *)
(***************************************************************************)
HostCall(op, name, selector, ok) ==
    [op |-> op, name |-> name, selector |-> selector, ok |-> ok]

\* Mutant of RegisterOne: the already-registered check is missing.
RegisterOneNoSkip(st, schema, throws) ==
    IF throws
    THEN [st EXCEPT !.calls = Append(@, HostCall("registerTool", schema.name, schema.selector, FALSE))]
    ELSE [reg |-> Put(st.reg, schema.name, schema.selector),
          host |-> Put(st.host, schema.name, schema),
          calls |-> Append(st.calls, HostCall("registerTool", schema.name, schema.selector, TRUE)),
          events |-> Append(st.events, <<"TOOL_REGISTERED", schema.name>>),
          threw |-> st.threw]

\* One iteration of the loop of registerTools.
RegisterOne(st, schema, throws) ==
    IF Has(st.reg, schema.name)
    THEN st
    ELSE IF throws
    THEN [st EXCEPT !.calls = Append(@, HostCall("registerTool", schema.name, schema.selector, FALSE))]
    ELSE [reg |-> Put(st.reg, schema.name, schema.selector),
          host |-> Put(st.host, schema.name, schema),
          calls |-> Append(st.calls, HostCall("registerTool", schema.name, schema.selector, TRUE)),
          events |-> Append(st.events, <<"TOOL_REGISTERED", schema.name>>),
          threw |-> st.threw]

RECURSIVE RegisterLoopNoCatch(_, _, _, _)
RECURSIVE RegisterLoop(_, _, _, _)

\* Mutant of RegisterLoop: the exception of a host call leaves the loop.
RegisterLoopNoCatch(st, schemas, i, fail) ==
    IF i > Len(schemas) THEN st
    ELSE IF i \in fail /\ ~Has(st.reg, schemas[i].name)
    THEN [RegisterOne(st, schemas[i], TRUE) EXCEPT !.threw = TRUE]
    ELSE RegisterLoopNoCatch(RegisterOne(st, schemas[i], FALSE), schemas, i + 1, fail)

\* The loop of registerTools, whose body catches what the host call throws.
RegisterLoop(st, schemas, i, fail) ==
    IF i > Len(schemas) THEN st
    ELSE RegisterLoop(RegisterOne(st, schemas[i], i \in fail), schemas, i + 1, fail)

\* Mutant of registerTools: the test of navigator.modelContext is missing.
registerToolsNoDetect(reg, host, present, schemas, fail) ==
    LET st0 == [reg |-> reg, host |-> host, calls |-> <<>>, events |-> <<>>, threw |-> FALSE]
    IN RegisterLoop(st0, schemas, 1, fail)

\* registerTools(schemas); fail = positions whose host registerTool call throws.
registerTools(reg, host, present, schemas, fail) ==
    LET st0 == [reg |-> reg, host |-> host, calls |-> <<>>, events |-> <<>>, threw |-> FALSE]
    IN IF ~present THEN st0 ELSE RegisterLoop(st0, schemas, 1, fail)

\* Mutant of unregisterTools: the entry is deleted before the host is called.
unregisterToolsDeleteFirst(reg, host, present, removedSelectors, fail) ==
    LET st0 == [reg |-> reg, host |-> host, calls |-> <<>>, events |-> <<>>, threw |-> FALSE]
        hit == {n \in DOMAIN reg : reg[n] \in removedSelectors}
        order == SeqOfSet(hit)
    IN IF ~present THEN st0
       ELSE [reg |-> Drop(reg, hit),
             host |-> Drop(host, hit \ fail),
             calls |-> [i \in DOMAIN order |->
                          HostCall("unregisterTool", order[i], reg[order[i]], order[i] \notin fail)],
             events |-> SelectSeq([i \in DOMAIN order |-> <<"TOOL_UNREGISTERED", order[i]>>],
                                  LAMBDA ev : ev[2] \notin fail),
             threw |-> FALSE]

\* unregisterTools(removedSelectors); fail = names whose host unregisterTool throws.
unregisterTools(reg, host, present, removedSelectors, fail) ==
    LET st0 == [reg |-> reg, host |-> host, calls |-> <<>>, events |-> <<>>, threw |-> FALSE]
        hit == {n \in DOMAIN reg : reg[n] \in removedSelectors}
        order == SeqOfSet(hit)
    IN IF ~present THEN st0
       ELSE [reg |-> Drop(reg, hit \ fail),
             host |-> Drop(host, hit \ fail),
             calls |-> [i \in DOMAIN order |->
                          HostCall("unregisterTool", order[i], reg[order[i]], order[i] \notin fail)],
             events |-> SelectSeq([i \in DOMAIN order |-> <<"TOOL_UNREGISTERED", order[i]>>],
                                  LAMBDA ev : ev[2] \notin fail),
             threw |-> FALSE]

\* Mutant of unregisterAllTools: the exception of a host call leaves the
\* function before the registry is cleared.
unregisterAllToolsNoCatch(reg, host, present, fail) ==
    LET st0 == [reg |-> reg, host |-> host, calls |-> <<>>, events |-> <<>>, threw |-> FALSE]
        order == SeqOfSet(DOMAIN reg)
        bad == {i \in DOMAIN order : order[i] \in fail}
        last == IF bad = {} THEN Len(order) ELSE CHOOSE i \in bad : \A j \in bad : i <= j
    IN IF ~present THEN st0
       ELSE [reg |-> IF bad = {} THEN EmptyMap ELSE reg,
             host |-> Drop(host, {order[i] : i \in 1..last} \ fail),
             calls |-> [i \in 1..last |->
                          HostCall("unregisterTool", order[i], reg[order[i]], order[i] \notin fail)],
             events |-> <<>>,
             threw |-> bad # {}]

\* unregisterAllTools(); fail = names whose host unregisterTool throws.
unregisterAllTools(reg, host, present, fail) ==
    LET st0 == [reg |-> reg, host |-> host, calls |-> <<>>, events |-> <<>>, threw |-> FALSE]
        order == SeqOfSet(DOMAIN reg)
    IN IF ~present THEN st0
       ELSE [reg |-> EmptyMap,
             host |-> Drop(host, DOMAIN reg \ fail),
             calls |-> [i \in DOMAIN order |->
                          HostCall("unregisterTool", order[i], reg[order[i]], order[i] \notin fail)],
             events |-> <<>>,
             threw |-> FALSE]

(***************************************************************************)
(* scanner: scanDOM() lists the buttons in the order querySelectorAll does *)
(***************************************************************************)
\* value || undefined
OrUndef(v) == IF Truthy(v) THEN v ELSE Undef

isIgnored(el) == el.ignore

readToolAttributes(el) ==
    [overrideName |-> el.toolName,
     overrideDescription |-> el.toolDescription,
     overrideAnnotations |->
        IF el.hintAttrs = {} THEN NoAnnotations
        ELSE Ann([h \in el.hintAttrs |-> TRUE])]

scanForms(page) ==
    LET kept == SelectSeq(page, LAMBDA el : el.tag = "form" /\ ~isIgnored(el))
    IN [i \in DOMAIN kept |->
          LET form == kept[i]
              overrides == readToolAttributes(form)
          IN [type |-> "form", id |-> OrUndef(form.id), selector |-> buildSelector(form),
              method |-> toUpperCase(OrElse(form.method, "GET")), inputs |-> form.fields,
              ariaLabel |-> Undef, textContent |-> Undef,
              overrideName |-> overrides.overrideName,
              overrideDescription |-> overrides.overrideDescription,
              overrideAnnotations |-> overrides.overrideAnnotations]]

scanButtons(page) ==
    LET kept == SelectSeq(page, LAMBDA el :
                    /\ el.tag = "button"
                    /\ ~isIgnored(el)
                    /\ \/ Truthy(el.toolName) \/ Truthy(el.ariaLabel)
                       \/ el.id # "" \/ el.text # ""
                    /\ ~el.inForm)
    IN [i \in DOMAIN kept |->
          LET el == kept[i]
              overrides == readToolAttributes(el)
          IN [type |-> "button", id |-> OrUndef(el.id), selector |-> buildSelector(el),
              method |-> Undef, inputs |-> <<>>,
              ariaLabel |-> el.ariaLabel, textContent |-> OrUndef(el.text),
              overrideName |-> overrides.overrideName,
              overrideDescription |-> overrides.overrideDescription,
              overrideAnnotations |-> overrides.overrideAnnotations]]

scanAnnotated(page) ==
    LET kept == SelectSeq(page, LAMBDA el :
                    /\ el.toolName # Undef
                    /\ ~isIgnored(el)
                    /\ el.tag \notin {"form", "button"}
                    /\ ~el.inForm)
    IN [i \in DOMAIN kept |->
          LET el == kept[i]
              overrides == readToolAttributes(el)
          IN [type |-> "button", id |-> OrUndef(el.id), selector |-> buildSelector(el),
              method |-> Undef, inputs |-> <<>>,
              ariaLabel |-> el.ariaLabel, textContent |-> OrUndef(el.text),
              overrideName |-> overrides.overrideName,
              overrideDescription |-> overrides.overrideDescription,
              overrideAnnotations |-> overrides.overrideAnnotations]]

\* scanDOM on a document given as its nodes in document order.
scanPage(page) == scanForms(page) \o scanButtons(page) \o scanAnnotated(page)

(***************************************************************************)
(* packages/sdk/src/scanner.ts: the scanner module of two passes, which    *)
(* reads no data-tool-* attribute.                                         *)
(***************************************************************************)
scanFormsPlain(page) ==
    LET kept == SelectSeq(page, LAMBDA el : el.tag = "form")
    IN [i \in DOMAIN kept |->
          LET form == kept[i]
          IN [type |-> "form", id |-> OrUndef(form.id), selector |-> buildSelector(form),
              method |-> toUpperCase(OrElse(form.method, "GET")), inputs |-> form.fields,
              ariaLabel |-> Undef, textContent |-> Undef,
              overrideName |-> Undef, overrideDescription |-> Undef,
              overrideAnnotations |-> NoAnnotations]]

scanButtonsPlain(page) ==
    LET kept == SelectSeq(page, LAMBDA el :
                    /\ el.tag = "button"
                    /\ \/ Truthy(el.ariaLabel) \/ el.id # "" \/ el.text # ""
                    /\ ~el.inForm)
    IN [i \in DOMAIN kept |->
          LET el == kept[i]
          IN [type |-> "button", id |-> OrUndef(el.id), selector |-> buildSelector(el),
              method |-> Undef, inputs |-> <<>>,
              ariaLabel |-> el.ariaLabel, textContent |-> OrUndef(el.text),
              overrideName |-> Undef, overrideDescription |-> Undef,
              overrideAnnotations |-> NoAnnotations]]

scanPagePlain(page) == scanFormsPlain(page) \o scanButtonsPlain(page)

\* The nodes of the catalogue document d in document order, from node e on.
RECURSIVE PageFrom(_, _)
PageFrom(d, e) ==
    IF e > 3 THEN <<>>
    ELSE IF e \in d THEN <<NodeOf(e)>> \o PageFrom(d, e + 1)
    ELSE PageFrom(d, e + 1)

scanDOM(d) == scanPage(PageFrom(d, 1))

\* The ScannedElement of catalogue node e.
ScannedOf(e) == scanPage(<<NodeOf(e)>>)[1]

SelectorsOf(els) == {els[i].selector : i \in DOMAIN els}

(***************************************************************************)
(* schema.ts                                                               *)
(***************************************************************************)
generateLocalSchemas(elements) ==
    LET known == SelectSeq(elements, LAMBDA el : el.type \in {"form", "button"})
    IN [i \in DOMAIN known |-> SchemaOf(known[i])]

\* What the remote service answers: its own local generator, which sets no
\* annotations ("ok"), or model-written names and annotations ("ai").
AiName(n) == IF n = "save" THEN "save_changes" ELSE n

\* generate-schema.ts localSchemaFromForm / localSchemaFromButton: the
\* service's own generator reads no override and writes no annotations.
apiLocalSchema(el) ==
    [SchemaOf([el EXCEPT !.overrideName = Undef, !.overrideDescription = Undef])
        EXCEPT !.annotations = NoAnnotations]

RemoteSchema(el, outcome) ==
    IF outcome = "ai"
    THEN [apiLocalSchema(el) EXCEPT !.name = AiName(@),
                                    !.description = <<"ai">> \o @,
                                    !.annotations = IF el.type = "form"
                                                    THEN inferFormAnnotations(el.method)
                                                    ELSE inferButtonAnnotations(el)]
    ELSE apiLocalSchema(el)

RemoteOutcomes == {"ok", "ai", "status", "empty", "timeout", "network"}

Miss(c) == [hit |-> FALSE, schemas |-> <<>>, cache |-> c]

\* age is Date.now() - cached.timestamp.
getCachedSchemas(c, st, path) ==
    IF st # "ok" \/ path \notin DOMAIN c THEN Miss(c)
    ELSE IF c[path].age > CACHE_TTL_MS THEN Miss(Drop(c, {path}))
    ELSE [hit |-> TRUE, schemas |-> c[path].schemas, cache |-> c]

\* Mutant of cacheSchemas: nothing is written.
cacheSchemasNoWrite(c, st, path, schemas, throws) == c

\* throws: localStorage.setItem raises (quota), which cacheSchemas swallows.
cacheSchemas(c, st, path, schemas, throws) ==
    IF st # "ok" \/ throws THEN c
    ELSE Put(c, path, [schemas |-> schemas, age |-> 0])

allOverridden(elements) ==
    \A i \in DOMAIN elements :
        Truthy(elements[i].overrideName) /\ Truthy(elements[i].overrideDescription)

\* fetchSchemas up to its first suspension: the promise is already settled
\* ("micro") or waits for the response of the remote request ("net").
fetchBegin(elements, endpoint, skipCache, c, st, path) ==
    LET got == IF skipCache THEN Miss(c) ELSE getCachedSchemas(c, st, path)
        local == generateLocalSchemas(elements)
    IN IF got.hit
       THEN [wait |-> "micro", ready |-> got.schemas, cache |-> got.cache, src |-> "cache"]
       ELSE IF allOverridden(elements)
       THEN [wait |-> "micro", ready |-> local, cache |-> got.cache, src |-> "override"]
       ELSE IF endpoint # ""
       THEN [wait |-> "net", ready |-> <<>>, cache |-> got.cache, src |-> "remote"]
       ELSE [wait |-> "micro", ready |-> local, cache |-> got.cache, src |-> "local"]

\* The try block of fetchSchemas once fetch has settled: it returns the
\* remote schemas, falls through to the local fallback (non-2xx status, empty
\* list), or raises (abort after 15 s, network error).
tryBlock(remote, outcome) ==
    CASE outcome \in {"timeout", "network"} -> "throw"
      [] outcome \in {"ok", "ai"} /\ Len(remote) > 0 -> "return"
      [] OTHER -> "fallthrough"

\* Mutant of fetchEnd: the exception of the try block is not caught.
fetchEndNoCatch(elements, outcome, c, st, path, throws) ==
    LET remote == [i \in DOMAIN elements |-> RemoteSchema(elements[i], outcome)]
        try == tryBlock(remote, outcome)
    IN IF try = "return"
       THEN [schemas |-> remote, cache |-> cacheSchemas(c, st, path, remote, throws),
             threw |-> FALSE]
       ELSE IF try = "throw"
       THEN [schemas |-> <<>>, cache |-> c, threw |-> TRUE]
       ELSE [schemas |-> generateLocalSchemas(elements), cache |-> c, threw |-> FALSE]

\* fetchSchemas after the response (or the failure) of the remote request:
\* the catch clause logs and lets the function go on to the local fallback.
fetchEnd(elements, outcome, c, st, path, throws) ==
    LET remote == [i \in DOMAIN elements |-> RemoteSchema(elements[i], outcome)]
        try == tryBlock(remote, outcome)
    IN IF try = "return"
       THEN [schemas |-> remote, cache |-> cacheSchemas(c, st, path, remote, throws),
             threw |-> FALSE]
       ELSE [schemas |-> generateLocalSchemas(elements), cache |-> c, threw |-> FALSE]

(***************************************************************************)
(* Suspended async functions.                                              *)
(*   kind  "init" | "scan" | "rec"                                         *)
(*   req   the elements it asked descriptors for                           *)
(*   all   allElements of a handleDOMChange (read after its await)         *)
(*   cfg   the config parameter of an init (read after its await)          *)
(***************************************************************************)
Task(kind, all, req, cfg, fb) ==
    [kind |-> kind, all |-> all, req |-> req, cfg |-> cfg,
     wait |-> fb.wait, ready |-> fb.ready]

MicroPending == \E i \in DOMAIN tasks : tasks[i].wait = "micro"

RemoveAt(s, i) == [j \in 1..(Len(s) - 1) |-> IF j < i THEN s[j] ELSE s[j + 1]]

\* The schemas a resumed task receives and the cache after its request.
Resumed(task, outcome, throws) ==
    IF task.wait = "micro"
    THEN [schemas |-> task.ready, cache |-> cache]
    ELSE fetchEnd(task.req, outcome, cache, storage, PathOf(href), throws)

(***************************************************************************)
(* watcher.ts                                                              *)
(***************************************************************************)
\* Mutant of diffSelectors: every scanned element counts as added.
diffSelectorsAllAdded(newElements, cur) ==
    [added |-> newElements,
     removedSelectors |-> cur \ SelectorsOf(newElements)]

\* Mutant of diffSelectors: removed selectors are not looked for.
diffSelectorsNoRemoved(newElements, cur) ==
    [added |-> SelectSeq(newElements, LAMBDA e : e.selector \notin cur),
     removedSelectors |-> {}]

diffSelectors(newElements, cur) ==
    [added |-> SelectSeq(newElements, LAMBDA e : e.selector \notin cur),
     removedSelectors |-> cur \ SelectorsOf(newElements)]

\* A pending timer: the time left until it is due, and whether the handle
\* in debounceTimer is the handle of this timer.
Timer(reason) == [reason |-> reason, left |-> DEBOUNCE_MS, held |-> TRUE]

\* clearTimeout(debounceTimer)
Cleared(ts) == {t \in ts : ~t.held}

Released(ts) == {[t EXCEPT !.held = FALSE] : t \in ts}

\* Mutant of debouncedRescan: the handle of the new timer is not kept.
debouncedRescanNoHandle(reason) ==
    /\ debounceTimer' = debounceTimer
    /\ timers' = Cleared(timers) \cup {[Timer(reason) EXCEPT !.held = FALSE]}

\* Mutant of debouncedRescan: the pending timer is not cleared.
debouncedRescanNoClear(reason) ==
    /\ debounceTimer' = "set"
    /\ timers' = Released(timers) \cup {Timer(reason)}

debouncedRescan(reason) ==
    /\ debounceTimer' = "set"
    /\ timers' = Cleared(timers) \cup {Timer(reason)}

\* handleNavigation, the popstate / hashchange listener.
handleNavigation(newUrl) ==
    IF newUrl = currentUrl
    THEN UNCHANGED <<currentUrl, debounceTimer, timers>>
    ELSE /\ currentUrl' = newUrl
         /\ debouncedRescan("navigation")

\* Mutant of startWatching: the test of a running watcher is missing.
startWatchingAgain(sdkConfig, initialSelectors) ==
    /\ wconfig' = sdkConfig
    /\ currentSelectors' = initialSelectors
    /\ currentUrl' = href
    /\ observer' = TRUE
    /\ observers' = observers + 1

\* startWatching(sdkConfig, initialSelectors)
startWatching(sdkConfig, initialSelectors) ==
    IF observer
    THEN UNCHANGED <<observer, observers, wconfig, currentSelectors, currentUrl>>
    ELSE /\ wconfig' = sdkConfig
         /\ currentSelectors' = initialSelectors
         /\ currentUrl' = href
         /\ observer' = TRUE
         /\ observers' = observers + 1

\* Mutant of stopWatching: the pending timer survives.
stopWatchingKeepTimer ==
    /\ observer' = FALSE
    /\ observers' = IF observer THEN observers - 1 ELSE observers
    /\ UNCHANGED <<timers, debounceTimer>>
    /\ currentSelectors' = {}
    /\ wconfig' = NoConfig

stopWatching ==
    /\ observer' = FALSE
    /\ observers' = IF observer THEN observers - 1 ELSE observers
    /\ timers' = Cleared(timers)
    /\ debounceTimer' = "null"
    /\ currentSelectors' = {}
    /\ wconfig' = NoConfig

\* What handleDOMChange(reason) sends and calls, in program order, from its
\* start to its await of fetchSchemas (or to its end without one).
stepsOfChange(reason) ==
    LET allElements == scanDOM(doc)
        d == diffSelectors(allElements, currentSelectors)
    IN IF wconfig = NoConfig \/ (Len(d.added) = 0 /\ d.removedSelectors = {})
       THEN <<>>
       ELSE <<[op |-> "trackEvent", type |-> "DOM_MUTATION", reason |-> reason,
               added |-> Len(d.added), removed |-> Cardinality(d.removedSelectors)]>>
            \o (IF d.removedSelectors # {}
                THEN <<[op |-> "unregisterTools", arg |-> d.removedSelectors]>> ELSE <<>>)
            \o (IF Len(d.added) > 0
                THEN <<[op |-> "fetchSchemas", arg |-> SelectorsOf(d.added), skipCache |-> TRUE]>>
                ELSE <<>>)

\* Mutant of handleDOMChange: the tools of the removed selectors are taken
\* out after the descriptors of the added elements are registered.
handleDOMChangeRegisterFirst(reason) ==
    LET allElements == scanDOM(doc)
        d == diffSelectors(allElements, currentSelectors)
        un == IF d.removedSelectors # {}
              THEN unregisterTools(registeredTools, hostTools, hostPresent, d.removedSelectors, {})
              ELSE [reg |-> registeredTools, host |-> hostTools]
        fb == fetchBegin(d.added, wconfig.endpoint, TRUE, cache, storage, PathOf(href))
        rg0 == registerTools(registeredTools, hostTools, hostPresent, fb.ready, {})
        rg == IF d.removedSelectors # {}
              THEN unregisterTools(rg0.reg, rg0.host, hostPresent, d.removedSelectors, {})
              ELSE rg0
    IN IF wconfig = NoConfig \/ (Len(d.added) = 0 /\ d.removedSelectors = {})
       THEN UNCHANGED <<registeredTools, hostTools, cache, currentSelectors, tasks>>
       ELSE IF Len(d.added) = 0
       THEN /\ registeredTools' = un.reg
            /\ hostTools' = un.host
            /\ currentSelectors' = SelectorsOf(allElements)
            /\ UNCHANGED <<cache, tasks>>
       ELSE IF fb.wait = "net"
       THEN /\ Len(tasks) < MaxTasks
            /\ UNCHANGED <<registeredTools, hostTools>>
            /\ cache' = fb.cache
            /\ tasks' = Append(tasks, Task("rec", allElements, d.added, NoConfig, fb))
            /\ UNCHANGED currentSelectors
       ELSE /\ registeredTools' = rg.reg
            /\ hostTools' = rg.host
            /\ cache' = fb.cache
            /\ currentSelectors' = SelectorsOf(allElements)
            /\ UNCHANGED tasks

\* handleDOMChange(reason), run by the debounce timer.  With nothing to fetch
\* or an already settled fetch the function runs to its end within the timer
\* task; with a remote request it suspends and ResumeTask finishes it.
handleDOMChange(reason) ==
    LET allElements == scanDOM(doc)
        d == diffSelectors(allElements, currentSelectors)
        un == IF d.removedSelectors # {}
              THEN unregisterTools(registeredTools, hostTools, hostPresent, d.removedSelectors, {})
              ELSE [reg |-> registeredTools, host |-> hostTools]
        fb == fetchBegin(d.added, wconfig.endpoint, TRUE, cache, storage, PathOf(href))
        rg == registerTools(un.reg, un.host, hostPresent, fb.ready, {})
    IN IF wconfig = NoConfig \/ (Len(d.added) = 0 /\ d.removedSelectors = {})
       THEN UNCHANGED <<registeredTools, hostTools, cache, currentSelectors, tasks>>
       ELSE IF Len(d.added) = 0
       THEN /\ registeredTools' = un.reg
            /\ hostTools' = un.host
            /\ currentSelectors' = SelectorsOf(allElements)
            /\ UNCHANGED <<cache, tasks>>
       ELSE IF fb.wait = "net"
       THEN /\ Len(tasks) < MaxTasks
            /\ registeredTools' = un.reg
            /\ hostTools' = un.host
            /\ cache' = fb.cache
            /\ tasks' = Append(tasks, Task("rec", allElements, d.added, NoConfig, fb))
            /\ UNCHANGED currentSelectors
       ELSE /\ registeredTools' = rg.reg
            /\ hostTools' = rg.host
            /\ cache' = fb.cache
            /\ currentSelectors' = SelectorsOf(allElements)
            /\ UNCHANGED tasks

(***************************************************************************)
(* Events of the page and of the event loop.                               *)
(***************************************************************************)
\* A script adds and removes nodes; the MutationObserver callback follows.
Mutate(d) ==
    /\ ~draining
    /\ d # doc
    /\ doc' = d
    /\ IF observer THEN debouncedRescan("mutation") ELSE UNCHANGED <<timers, debounceTimer>>
    /\ UNCHANGED <<hostPresent, hostTools, registeredTools, href, storage, cache,
                   observer, observers, currentSelectors, currentUrl, wconfig, sdkVars, loopVars, exec>>

\* The location changes; fires: the browser dispatches popstate / hashchange
\* (history.pushState dispatches neither).
Navigate(u, fires) ==
    /\ ~draining
    /\ fires => ~MicroPending
    /\ u # href
    /\ href' = u
    /\ IF fires /\ observer THEN handleNavigation(u)
       ELSE UNCHANGED <<currentUrl, debounceTimer, timers>>
    /\ UNCHANGED <<hostPresent, hostTools, registeredTools, doc, storage, cache,
                   observer, observers, currentSelectors, wconfig, sdkVars, loopVars, exec>>

\* A further navigation event for the location already reached.
NavEvent ==
    /\ ~draining /\ ~MicroPending
    /\ observer
    /\ handleNavigation(href)
    /\ UNCHANGED <<hostPresent, hostTools, registeredTools, doc, href, storage, cache,
                   observer, observers, currentSelectors, wconfig, sdkVars, loopVars, exec>>

\* step milliseconds pass.  Ages beyond the TTL and elapsed times beyond
\* MaxElapsed are not told apart.
Aged(c, step) ==
    [p \in DOMAIN c |->
        [c[p] EXCEPT !.age = IF @ + step > CACHE_TTL_MS THEN CACHE_TTL_MS + 1 ELSE @ + step]]

Tick(step) ==
    /\ ~draining /\ ~MicroPending
    /\ timers' = {[t EXCEPT !.left = IF @ > step THEN @ - step ELSE 0] : t \in timers}
    /\ cache' = Aged(cache, step)
    /\ exec' = IF exec.pc \in {"idle", "done"} THEN exec
               ELSE [exec EXCEPT !.elapsed = IF @ + step > MaxElapsed THEN MaxElapsed ELSE @ + step]
    /\ UNCHANGED <<hostPresent, hostTools, registeredTools, doc, href, storage,
                   observer, observers, debounceTimer, currentSelectors, currentUrl, wconfig,
                   sdkVars, loopVars>>

\* The debounce timer t is due: setTimeout runs handleDOMChange.
TimerFire(t) ==
    /\ ~draining /\ ~MicroPending
    /\ t \in timers
    /\ t.left = 0
    /\ timers' = timers \ {t}
    /\ handleDOMChange(t.reason)
    /\ UNCHANGED <<hostPresent, doc, href, storage, observer, observers, debounceTimer,
                   currentUrl, wconfig, sdkVars, draining, exec>>

(***************************************************************************)
(* registrar.ts: the execute callback registerTools hands to the host.     *)
(* exec is the invocation in progress or the last one finished:            *)
(*   pc       "idle" | "confirm" (awaiting requestUserInteraction) | "done"*)
(*   client   "none": no client.requestUserInteraction; "asks": present    *)
(*   reply    what requestUserInteraction gave, "n/a" when it was not used *)
(*   elapsed  Date.now() - startTime                                       *)
(*   found    whether document.querySelector resolved, "n/a" before that   *)
(*   dom      the document interactions made, events the telemetry sent    *)
(***************************************************************************)
NoResult == [kind |-> "none"]

Clients == {"none", "asks"}
Replies == {"true", "false", "other", "throws"}

\* maybeConfirmDestructive up to its await: is the user asked?
asksUser(schema, client) == HintOf(schema.annotations, "destructiveHint") /\ client = "asks"

\* Mutant of maybeConfirmDestructive: every reply allows the action.
maybeConfirmDestructiveAllowAll(reply) == TRUE

\* maybeConfirmDestructive after its await: allowed = (result === true), and
\* a requestUserInteraction that throws allows the action.
maybeConfirmDestructive(reply) == reply \in {"true", "throws"}

\* Mutant of phaseC: a missing element is reported in the result, not thrown.
phaseCNoThrow(e) ==
    IF e.selector \in SelectorsOf(scanDOM(doc))
    THEN [e EXCEPT !.pc = "done", !.found = "yes",
                   !.dom = @ \o <<[op |-> "querySelector", selector |-> e.selector],
                                  [op |-> "click", selector |-> e.selector]>>,
                   !.events = Append(@, [type |-> "TOOL_SUCCESS", toolName |-> e.name,
                                         duration |-> e.elapsed]),
                   !.result = [kind |-> "returned", success |-> TRUE, duration |-> e.elapsed]]
    ELSE [e EXCEPT !.pc = "done", !.found = "no",
                   !.dom = Append(@, [op |-> "querySelector", selector |-> e.selector]),
                   !.result = [kind |-> "returned", success |-> FALSE, reason |-> "not-found"]]

\* Phases C and D of execute: resolve the selector, click, report.
phaseC(e) ==
    IF e.selector \in SelectorsOf(scanDOM(doc))
    THEN [e EXCEPT !.pc = "done", !.found = "yes",
                   !.dom = @ \o <<[op |-> "querySelector", selector |-> e.selector],
                                  [op |-> "click", selector |-> e.selector]>>,
                   !.events = Append(@, [type |-> "TOOL_SUCCESS", toolName |-> e.name,
                                         duration |-> e.elapsed]),
                   !.result = [kind |-> "returned", success |-> TRUE, duration |-> e.elapsed]]
    ELSE [e EXCEPT !.pc = "done", !.found = "no",
                   !.dom = Append(@, [op |-> "querySelector", selector |-> e.selector]),
                   !.events = Append(@, [type |-> "TOOL_ERROR", toolName |-> e.name,
                                         error |-> "not-found", duration |-> e.elapsed]),
                   !.result = [kind |-> "thrown", error |-> "not-found"]]

\* Mutant of ExecBegin: phase A sends no TOOL_ATTEMPT event.
ExecBeginNoAttempt(n, client, ms) ==
    /\ ~draining /\ ~MicroPending
    /\ exec.pc \in {"idle", "done"}
    /\ Has(hostTools, n)
    /\ LET schema == hostTools[n]
           begun == [pc |-> "confirm", name |-> schema.name, selector |-> schema.selector,
                     destructive |-> HintOf(schema.annotations, "destructiveHint"), client |-> client, reply |-> "n/a",
                     elapsed |-> 0, found |-> "n/a",
                     goneAtCall |-> schema.selector \notin SelectorsOf(scanDOM(doc)),
                     dom |-> <<>>,
                     events |-> <<>>,
                     result |-> NoResult]
       IN exec' = IF asksUser(schema, client) THEN begun
                  ELSE phaseC([begun EXCEPT !.elapsed = ms])
    /\ UNCHANGED <<regVars, envVars, watchVars, sdkVars, loopVars>>

\* The host invokes tool n.  Without a confirmation to wait for, the await
\* is over within the same task; the clock may have moved on by then (ms).
ExecBegin(n, client, ms) ==
    /\ ~draining /\ ~MicroPending
    /\ exec.pc \in {"idle", "done"}
    /\ Has(hostTools, n)
    /\ LET schema == hostTools[n]
           begun == [pc |-> "confirm", name |-> schema.name, selector |-> schema.selector,
                     destructive |-> HintOf(schema.annotations, "destructiveHint"), client |-> client, reply |-> "n/a",
                     elapsed |-> 0, found |-> "n/a",
                     goneAtCall |-> schema.selector \notin SelectorsOf(scanDOM(doc)),
                     dom |-> <<>>,
                     events |-> <<[type |-> "TOOL_ATTEMPT", toolName |-> schema.name]>>,
                     result |-> NoResult]
       IN exec' = IF asksUser(schema, client) THEN begun
                  ELSE phaseC([begun EXCEPT !.elapsed = ms])
    /\ UNCHANGED <<regVars, envVars, watchVars, sdkVars, loopVars>>

\* requestUserInteraction settles with reply.
ExecConfirmed(reply) ==
    /\ ~draining /\ ~MicroPending
    /\ exec.pc = "confirm"
    /\ LET told == IF reply = "throws" THEN exec.events
                   ELSE Append(exec.events,
                               [type |-> "USER_CONFIRMATION", toolName |-> exec.name,
                                allowed |-> (reply = "true"), destructive |-> TRUE])
           e == [exec EXCEPT !.reply = reply, !.events = told]
       IN exec' = IF maybeConfirmDestructive(reply) THEN phaseC(e)
                  ELSE [e EXCEPT !.pc = "done",
                                 !.result = [kind |-> "returned", success |-> FALSE,
                                             reason |-> "User denied destructive action."]]
    /\ UNCHANGED <<regVars, envVars, watchVars, sdkVars, loopVars>>

(***************************************************************************)
(* index.ts: ThirdEyeSDK                                                   *)
(***************************************************************************)
\* Mutant of SdkInit: the test of this.initialized is missing.
SdkInitAgain(cfg) ==
    /\ ~draining
    /\ LET scanned == scanDOM(doc)
           fb == fetchBegin(scanned, cfg.endpoint, FALSE, cache, storage, PathOf(href))
       IN IF cfg.siteId = ""
          THEN UNCHANGED <<sdkVars, cache, tasks>>
          ELSE /\ config' = cfg
               /\ initialized' = TRUE
               /\ scannedElements' = scanned
               /\ UNCHANGED registeredSchemas
               /\ IF Len(scanned) = 0
                  THEN UNCHANGED <<cache, tasks>>
                  ELSE /\ Len(tasks) < MaxTasks
                       /\ cache' = fb.cache
                       /\ tasks' = Append(tasks, Task("init", <<>>, scanned, cfg, fb))
    /\ UNCHANGED <<regVars, doc, href, storage, watchVars, draining, exec>>

SdkInit(cfg) ==
    /\ ~draining
    /\ LET scanned == scanDOM(doc)
           fb == fetchBegin(scanned, cfg.endpoint, FALSE, cache, storage, PathOf(href))
       IN IF initialized \/ cfg.siteId = ""
          THEN UNCHANGED <<sdkVars, cache, tasks>>
          ELSE /\ config' = cfg
               /\ initialized' = TRUE
               /\ scannedElements' = scanned
               /\ UNCHANGED registeredSchemas
               /\ IF Len(scanned) = 0
                  THEN UNCHANGED <<cache, tasks>>
                  ELSE /\ Len(tasks) < MaxTasks
                       /\ cache' = fb.cache
                       /\ tasks' = Append(tasks, Task("init", <<>>, scanned, cfg, fb))
    /\ UNCHANGED <<regVars, doc, href, storage, watchVars, draining, exec>>

SdkScan ==
    /\ ~draining
    /\ LET scanned == scanDOM(doc)
           fb == fetchBegin(scanned, config.endpoint, FALSE, cache, storage, PathOf(href))
       IN IF ~initialized \/ config = NoConfig
          THEN UNCHANGED <<sdkVars, cache, tasks>>
          ELSE /\ Len(tasks) < MaxTasks
               /\ scannedElements' = scanned
               /\ cache' = fb.cache
               /\ tasks' = Append(tasks, Task("scan", <<>>, scanned, NoConfig, fb))
               /\ UNCHANGED <<config, initialized, registeredSchemas>>
    /\ UNCHANGED <<regVars, doc, href, storage, watchVars, draining, exec>>

\* destroy(): stopWatching when watching, unregisterAllTools, clearContext
\* (which makes the host drop the tools it holds), reset of the fields.
SdkDestroy ==
    /\ ~draining
    /\ IF observer THEN stopWatching ELSE UNCHANGED <<observer, observers, timers, debounceTimer, currentSelectors, wconfig>>
    /\ registeredTools' = unregisterAllTools(registeredTools, hostTools, hostPresent, {}).reg
    /\ hostTools' = EmptyMap
    /\ config' = NoConfig
    /\ initialized' = FALSE
    /\ scannedElements' = <<>>
    /\ registeredSchemas' = <<>>
    /\ UNCHANGED <<hostPresent, doc, href, storage, cache, currentUrl, loopVars, exec>>

\* The continuation of a suspended init, scan or handleDOMChange.
ResumeTask(i, outcome, throws) ==
    /\ i \in DOMAIN tasks
    /\ IF tasks[i].wait = "micro"
       THEN /\ \A j \in 1..(i - 1) : tasks[j].wait # "micro"
            /\ outcome = "ok" /\ ~throws
       ELSE ~draining /\ ~MicroPending
    /\ LET task == tasks[i]
           got == Resumed(task, outcome, throws)
           rg == registerTools(registeredTools, hostTools, hostPresent, got.schemas, {})
       IN /\ registeredTools' = rg.reg
          /\ hostTools' = rg.host
          /\ cache' = got.cache
          /\ tasks' = RemoveAt(tasks, i)
          /\ draining' = (task.wait = "micro" /\ \E j \in DOMAIN tasks : j # i /\ tasks[j].wait = "micro")
          /\ CASE task.kind = "init" ->
                    /\ registeredSchemas' = got.schemas
                    /\ startWatching(task.cfg, SelectorsOf(scannedElements))
                    /\ UNCHANGED <<config, initialized, scannedElements>>
               [] task.kind = "scan" ->
                    /\ registeredSchemas' = got.schemas
                    /\ UNCHANGED <<config, initialized, scannedElements, observer, observers, wconfig,
                                   currentSelectors, currentUrl>>
               [] OTHER ->
                    /\ currentSelectors' = SelectorsOf(task.all)
                    /\ UNCHANGED <<sdkVars, observer, observers, wconfig, currentUrl>>
    /\ UNCHANGED <<hostPresent, doc, href, storage, timers, debounceTimer, exec>>

(***************************************************************************)
(* History of the SDK runs, kept for the statements below.                 *)
(*   missed     a node was added or removed while no observer was          *)
(*              installed although a scan was already in use, or destroy   *)
(*              left a suspended pipeline behind                           *)
(*   cancelled  "stopped": the last stopWatching found a debounce timer    *)
(*              pending; "signalled": and since then the document or the   *)
(*              location changed while the watcher was still stopped       *)
(*   win        one registered button was removed and one button added in  *)
(*              a single debounce window, starting from a settled watcher  *)
(***************************************************************************)
NoWin == [on |-> FALSE, goneName |-> "", goneSel |-> "", newName |-> "", newSel |-> "",
          recs |-> 0, rep |-> <<>>, done |-> FALSE]

NoObs == [missed |-> FALSE, cancelled |-> "no", win |-> NoWin]

Signalled == IF ~observer /\ obs.cancelled = "stopped" THEN "signalled" ELSE obs.cancelled

Settled ==
    /\ observer /\ hostPresent
    /\ timers = {} /\ tasks = <<>>
    /\ currentSelectors = SelectorsOf(scanDOM(doc))

WinOf(d) ==
    LET gone == doc \ d
        new == d \ doc
        r == CHOOSE e \in gone : TRUE
        a == CHOOSE e \in new : TRUE
        rs == SchemaOf(ScannedOf(r))
        as == SchemaOf(ScannedOf(a))
    IN IF /\ Settled
          /\ Cardinality(gone) = 1 /\ Cardinality(new) = 1
          /\ NodeOf(r).tag = "button" /\ NodeOf(a).tag = "button"
          /\ Has(registeredTools, rs.name) /\ registeredTools[rs.name] = rs.selector
       THEN [on |-> TRUE, goneName |-> rs.name, goneSel |-> rs.selector,
             newName |-> as.name, newSel |-> as.selector,
             recs |-> 0, rep |-> <<>>, done |-> FALSE]
       ELSE NoWin

ObsMutate(d) ==
    [missed |-> obs.missed \/ (~observer /\ (initialized \/ tasks # <<>>)),
     cancelled |-> Signalled,
     win |-> WinOf(d)]

ObsOther == [obs EXCEPT !.win = NoWin]

ObsNav == [obs EXCEPT !.win = NoWin, !.cancelled = Signalled]

ObsTick == [obs EXCEPT !.win = IF @.done THEN NoWin ELSE @]

ObsFire ==
    LET d == diffSelectors(scanDOM(doc), currentSelectors)
    IN [obs EXCEPT !.win =
          IF @.on /\ ~@.done
          THEN [@ EXCEPT !.recs = @ + 1,
                         !.rep = <<Len(d.added), Cardinality(d.removedSelectors)>>,
                         !.done = (tasks' = tasks)]
          ELSE NoWin]

ObsResume(i) ==
    [obs EXCEPT !.cancelled = IF tasks[i].kind = "init" /\ ~observer THEN "no" ELSE @,
                !.win = IF @.on /\ ~@.done /\ tasks[i].kind = "rec"
                        THEN [@ EXCEPT !.done = TRUE] ELSE NoWin]

ObsDestroy ==
    [missed |-> tasks # <<>>,
     cancelled |-> IF observer THEN (IF timers # {} THEN "stopped" ELSE "no")
                   ELSE obs.cancelled,
     win |-> NoWin]

(***************************************************************************)
(* Specification Spec: a page that uses the SDK through init, scan and     *)
(* destroy while its document and location change.  Host calls succeed.    *)
(***************************************************************************)
NoExec ==
    [pc |-> "idle", name |-> "", selector |-> "", destructive |-> FALSE, client |-> "none",
     reply |-> "n/a", elapsed |-> 0, found |-> "n/a", goneAtCall |-> FALSE, dom |-> <<>>,
     events |-> <<>>, result |-> NoResult]
NoBurst == [n |-> 0, recs |-> 0, since |-> 0]
NoGen == [pc |-> "idle", page |-> <<>>, elements |-> <<>>, skipCache |-> FALSE, src |-> "none",
          outcome |-> "n/a", threw |-> FALSE, schemas |-> <<>>]
NoCallLog == [op |-> "none", active |-> FALSE, differs |-> FALSE, changed |-> FALSE]
NoLog == [op |-> "none", pre |-> EmptyMap, arg |-> <<>>, calls |-> <<>>, events |-> <<>>,
          threw |-> FALSE]

InitBase ==
    /\ hostTools = EmptyMap
    /\ registeredTools = EmptyMap
    /\ regLog = NoLog
    /\ href = "/"
    /\ cache = EmptyMap
    /\ timers = {}
    /\ observer = FALSE
    /\ observers = 0
    /\ callLog = NoCallLog
    /\ debounceTimer = "null"
    /\ currentSelectors = {}
    /\ currentUrl = ""
    /\ wconfig = NoConfig
    /\ config = NoConfig
    /\ initialized = FALSE
    /\ scannedElements = <<>>
    /\ registeredSchemas = <<>>
    /\ tasks = <<>>
    /\ draining = FALSE
    /\ obs = NoObs
    /\ burst = NoBurst
    /\ synthLog = <<>>
    /\ exec = NoExec

InitCommon == InitBase /\ gen = NoGen

Init ==
    /\ InitCommon
    /\ hostPresent = TRUE
    /\ doc \in Docs
    /\ storage = "unavailable"

Quiet == UNCHANGED <<regLog, burst, synthLog, gen, callLog>>

DoMutate == \E d \in Docs : Mutate(d) /\ obs' = ObsMutate(d) /\ Quiet
DoTick == Tick(DEBOUNCE_MS) /\ obs' = ObsTick /\ Quiet
DoTimerFire == \E t \in timers : TimerFire(t) /\ obs' = ObsFire /\ Quiet
DoInit == \E cfg \in {Remote, NoConfig} : SdkInit(cfg) /\ obs' = ObsOther /\ Quiet
DoDestroy == SdkDestroy /\ obs' = ObsDestroy /\ Quiet
DoResume ==
    \E i \in DOMAIN tasks, outcome \in RemoteOutcomes \ {"ai"} :
        ResumeTask(i, outcome, FALSE) /\ obs' = ObsResume(i) /\ Quiet

Next ==
    \/ DoMutate \/ DoTick \/ DoTimerFire
    \/ DoInit \/ DoDestroy \/ DoResume

Spec == Init /\ [][Next]_vars

(***************************************************************************)
(* Specification SpecDebounce: the watcher's debounce seen at a 100 ms     *)
(* grain, on a page with one button, with navigation.  A signal is a call  *)
(* of debouncedRescan; a burst is a run of signals each of which finds the *)
(* timer of the previous one still pending.                                *)
(*   n      signals of the current burst (counted up to MaxBurst)          *)
(*   recs   handleDOMChange calls since the burst began                    *)
(*   since  milliseconds since the last signal (up to DEBOUNCE_MS)         *)
(***************************************************************************)
Signal ==
    IF burst.n > 0 /\ timers # {}
    THEN [burst EXCEPT !.n = IF @ < MaxBurst THEN @ + 1 ELSE @, !.since = 0]
    ELSE [n |-> 1, recs |-> 0, since |-> 0]

InitDebounce ==
    /\ InitCommon
    /\ hostPresent = TRUE
    /\ doc \in SUBSET {1}
    /\ storage = "unavailable"

Grain == DEBOUNCE_MS \div 3

DbMutate ==
    \E d \in SUBSET {1} :
        /\ Mutate(d)
        /\ obs' = ObsMutate(d)
        /\ burst' = IF observer THEN Signal ELSE burst
        /\ UNCHANGED <<regLog, synthLog, gen, callLog>>

DbNavigate ==
    \E u \in Urls, fires \in BOOLEAN :
        /\ Navigate(u, fires)
        /\ obs' = ObsNav
        /\ burst' = IF fires /\ observer /\ u # currentUrl THEN Signal ELSE burst
        /\ UNCHANGED <<regLog, synthLog, gen, callLog>>

DbNavEvent ==
    /\ NavEvent
    /\ obs' = ObsNav
    /\ burst' = IF href # currentUrl THEN Signal ELSE burst
    /\ UNCHANGED <<regLog, synthLog, gen, callLog>>

DbTick ==
    /\ Tick(Grain)
    /\ obs' = ObsTick
    /\ burst' = IF burst.n = 0 THEN burst
                ELSE [burst EXCEPT !.since = IF @ + Grain > DEBOUNCE_MS THEN DEBOUNCE_MS ELSE @ + Grain]
    /\ UNCHANGED <<regLog, synthLog, gen, callLog>>

DbTimerFire ==
    \E t \in timers :
        /\ TimerFire(t)
        /\ obs' = ObsFire
        /\ burst' = [burst EXCEPT !.recs = IF @ < 2 THEN @ + 1 ELSE @]
        /\ UNCHANGED <<regLog, synthLog, gen, callLog>>

DbInit ==
    \E cfg \in Configs :
        SdkInit(cfg) /\ obs' = ObsOther /\ UNCHANGED <<regLog, burst, synthLog, gen, callLog>>

DbDestroy ==
    /\ SdkDestroy
    /\ obs' = ObsDestroy
    /\ burst' = NoBurst
    /\ UNCHANGED <<regLog, synthLog, gen, callLog>>

DbResume ==
    \E i \in DOMAIN tasks, outcome \in RemoteOutcomes \ {"ai"} :
        /\ ResumeTask(i, outcome, FALSE)
        /\ obs' = ObsResume(i)
        /\ burst' = IF tasks[i].kind = "init" /\ ~observer THEN NoBurst ELSE burst
        /\ UNCHANGED <<regLog, synthLog, gen, callLog>>

NextDebounce ==
    \/ DbMutate \/ DbNavigate \/ DbNavEvent \/ DbTick \/ DbTimerFire
    \/ DbInit \/ DbDestroy \/ DbResume

SpecDebounce == InitDebounce /\ [][NextDebounce]_vars

\* C4: every burst of signals starts exactly one reconciliation, and starts
\* it only once DEBOUNCE_MS have passed since the last signal of the burst:
\* while the burst's timer is pending no handleDOMChange has run, the timer is
\* the only one and has DEBOUNCE_MS minus the time since the last signal left;
\* once no timer is pending, handleDOMChange has run exactly once.
C4_BurstStartsOneReconciliation ==
    (observer /\ burst.n >= 1) =>
        IF timers # {}
        THEN /\ burst.recs = 0
             /\ \A t \in timers : t.left = DEBOUNCE_MS - burst.since
             /\ Cardinality(timers) = 1
        ELSE burst.recs = 1

\* A burst of MaxBurst signals has led to its one reconciliation.
C4_Witness ==
    observer /\ burst.n = MaxBurst /\ burst.recs = 1 /\ timers = {}

\* C29: in every state at most one debounce timer is pending, and it is the
\* one whose handle debounceTimer holds; a signal that finds a timer pending
\* leaves exactly one timer, set to the full DEBOUNCE_MS.
C29_OneTimerPending ==
    /\ Cardinality(timers) <= 1
    /\ \A t \in timers : t.held /\ debounceTimer = "set"
    /\ (observer /\ burst.n >= 2 /\ burst.since = 0) =>
          timers = {Timer(t.reason) : t \in timers} /\ timers # {}

\* A second signal came while the timer of the first was pending, and one
\* timer with the full delay is pending.
C29_Witness ==
    /\ observer /\ burst.n = 2 /\ burst.since = 0
    /\ Cardinality(timers) = 1
    /\ \A t \in timers : t.left = DEBOUNCE_MS /\ t.reason = "navigation"

\* C7: while the watcher is stopped no debounce timer is pending, so that no
\* reconciliation can begin: stopWatching cancelled the pending one and the
\* mutations and navigations after it have scheduled none.
C7_NoTimerWhileStopped == ~observer => timers = {}

\* stopWatching found a timer pending and the page changed afterwards.
C7_Witness == ~observer /\ obs.cancelled = "signalled" /\ timers = {}

\* C3: with the host present and the watcher active, once no debounce timer is
\* pending and no reconciliation is in flight, every registered tool's selector
\* is a selector of the scan of the document (no ghost tools), provided every
\* change of the document was made under the eyes of the observer.
C3_NoGhostTools ==
    (observer /\ hostPresent /\ timers = {} /\ tasks = <<>> /\ ~obs.missed) =>
        \A n \in DOMAIN registeredTools :
            registeredTools[n] \in SelectorsOf(scanDOM(doc))

\* C5: a debounce window in which one registered button was removed and one
\* button added ends with exactly one reconciliation, which reported 1 added
\* and 1 removed, with the removed button's tool out of the registry and the
\* added button's tool in it.
C5_SwapReconciled ==
    (obs.win.on /\ obs.win.done) =>
        /\ obs.win.recs = 1
        /\ obs.win.rep = <<1, 1>>
        /\ ~(Has(registeredTools, obs.win.goneName)
             /\ registeredTools[obs.win.goneName] = obs.win.goneSel)
        /\ Has(registeredTools, obs.win.newName)
        /\ registeredTools[obs.win.newName] = obs.win.newSel

\* C6: a synthesis result that arrives after destroy() is discarded: as long
\* as the SDK is not initialized again the registry is empty.
C6_NothingRegisteredAfterDestroy == ~initialized => registeredTools = EmptyMap

(***************************************************************************)
(* Specification SpecReg: the registrar's exported functions called with   *)
(* arbitrary arguments against a host whose calls may throw.  regLog keeps *)
(* the last call: the registry before it, its argument, and the host calls *)
(* it made.                                                                *)
(***************************************************************************)
SchemaLists == UNION {[1..n -> ToolSchemas] : n \in 0..MaxBatch}

restOfPage == <<envVars, watchVars, sdkVars, loopVars, obs, burst, synthLog, exec, gen,
                callLog>>

InitReg ==
    /\ InitCommon
    /\ hostPresent \in BOOLEAN
    /\ doc = {}
    /\ storage = "unavailable"

RegRegister ==
    \E schemas \in SchemaLists : \E fail \in SUBSET (1..Len(schemas)) :
        LET r == registerTools(registeredTools, hostTools, hostPresent, schemas, fail)
        IN /\ registeredTools' = r.reg
           /\ hostTools' = r.host
           /\ regLog' = [op |-> "register", pre |-> registeredTools, arg |-> schemas,
                         calls |-> r.calls, events |-> r.events, threw |-> r.threw]
           /\ UNCHANGED <<hostPresent, restOfPage>>

RegUnregister ==
    \E sels \in SUBSET Selectors : \E fail \in SUBSET (DOMAIN registeredTools) :
        LET r == unregisterTools(registeredTools, hostTools, hostPresent, sels, fail)
        IN /\ registeredTools' = r.reg
           /\ hostTools' = r.host
           /\ regLog' = [op |-> "unregister", pre |-> registeredTools, arg |-> SeqOfSet(sels),
                         calls |-> r.calls, events |-> r.events, threw |-> r.threw]
           /\ UNCHANGED <<hostPresent, restOfPage>>

RegUnregisterAll ==
    \E fail \in SUBSET (DOMAIN registeredTools) :
        LET r == unregisterAllTools(registeredTools, hostTools, hostPresent, fail)
        IN /\ registeredTools' = r.reg
           /\ hostTools' = r.host
           /\ regLog' = [op |-> "unregisterAll", pre |-> registeredTools, arg |-> <<>>,
                         calls |-> r.calls, events |-> r.events, threw |-> r.threw]
           /\ UNCHANGED <<hostPresent, restOfPage>>

NextReg == RegRegister \/ RegUnregister \/ RegUnregisterAll

SpecReg == InitReg /\ [][NextReg]_vars

\* C1: the names of the registry are exactly the names of the tools the
\* registrar has registered with the host, whatever host calls threw.
C1_RegistryMatchesHost == DOMAIN registeredTools = DOMAIN hostTools

\* C2: registerTools skips a schema whose name is already registered.  A name
\* that was in the registry before the call gets no host call and keeps its
\* selector; a name that enters the registry during the call does so through
\* exactly one successful host call, no host call for that name follows it, and
\* the name is mapped to the selector of that call; the registry gains one
\* entry for each successful host call and nothing else.
C2_RegisterSkipsKnownNames ==
    regLog.op = "register" =>
        LET pre == regLog.pre
            calls == regLog.calls
            CallsOf(n) == {k \in DOMAIN calls : calls[k].name = n}
            OkOf(n) == {k \in CallsOf(n) : calls[k].ok}
        IN /\ \A n \in DOMAIN pre :
                /\ CallsOf(n) = {}
                /\ Has(registeredTools, n) /\ registeredTools[n] = pre[n]
           /\ \A n \in Names \ DOMAIN pre :
                /\ Cardinality(OkOf(n)) <= 1
                /\ \A k \in OkOf(n) :
                     /\ \A j \in CallsOf(n) : j <= k
                     /\ Has(registeredTools, n)
                     /\ registeredTools[n] = calls[k].selector
                /\ OkOf(n) = {} => ~Has(registeredTools, n)
           /\ Cardinality(DOMAIN registeredTools)
                = Cardinality(DOMAIN pre) + Cardinality({k \in DOMAIN calls : calls[k].ok})

\* One list named the same tool twice with two selectors, and the registry
\* holds the first.
C2_Witness ==
    /\ regLog.op = "register"
    /\ Len(regLog.arg) = 2
    /\ regLog.arg[1].name = regLog.arg[2].name
    /\ regLog.arg[1].selector # regLog.arg[2].selector
    /\ Len(regLog.calls) = 1 /\ regLog.calls[1].ok
    /\ Has(registeredTools, regLog.arg[1].name)
    /\ registeredTools[regLog.arg[1].name] = regLog.arg[1].selector

(***************************************************************************)
(* Specification SpecExec: a page initialized without an endpoint whose    *)
(* host invokes the registered tools while the document changes.           *)
(***************************************************************************)
InitExec ==
    /\ InitCommon
    /\ hostPresent = TRUE
    /\ doc \in Docs
    /\ storage = "unavailable"

still == UNCHANGED <<regLog, obs, burst, synthLog, gen, callLog>>

ExInit == SdkInit(Local) /\ still
ExResume == \E i \in DOMAIN tasks : ResumeTask(i, "ok", FALSE) /\ still
ExMutate == \E d \in Docs : Mutate(d) /\ still
ExTick == Tick(DEBOUNCE_MS) /\ still
ExTimerFire == \E t \in timers : TimerFire(t) /\ still
ExBegin == \E n \in Names, client \in Clients, ms \in {0, 1} : ExecBegin(n, client, ms) /\ still
ExConfirmed == \E reply \in Replies : ExecConfirmed(reply) /\ still

NextExec ==
    \/ ExInit \/ ExResume \/ ExMutate \/ ExTick \/ ExTimerFire
    \/ ExBegin \/ ExConfirmed

SpecExec == InitExec /\ [][NextExec]_vars

EventsOf(type) == {k \in DOMAIN exec.events : exec.events[k].type = type}

\* C8: when the user was asked about a destructive tool and did not allow it,
\* the call returns a result with success = FALSE and has made no document
\* interaction: no querySelector, no click.
C8_DeclineTouchesNothing ==
    (exec.pc = "done" /\ exec.reply \in {"false", "other"}) =>
        /\ exec.result.kind = "returned"
        /\ exec.result.success = FALSE
        /\ exec.dom = <<>>
        /\ exec.found = "n/a"

\* The user declined a destructive tool whose button is in the document.
C8_Witness ==
    /\ exec.pc = "done" /\ exec.reply = "false"
    /\ exec.destructive /\ exec.client = "asks"
    /\ exec.selector \in SelectorsOf(scanDOM(doc))
    /\ exec.result.kind = "returned" /\ exec.result.success = FALSE

\* C9 as stated: a call of a tool whose selector resolves to no element ends
\* with the not-found error thrown and exactly one TOOL_ERROR event, whose
\* duration is not zero.
C9_NotFoundNonZeroDuration ==
    (exec.pc = "done" /\ (exec.found = "no" \/ (exec.found = "n/a" /\ exec.goneAtCall))) =>
        /\ exec.result = [kind |-> "thrown", error |-> "not-found"]
        /\ Cardinality(EventsOf("TOOL_ERROR")) = 1
        /\ \A k \in EventsOf("TOOL_ERROR") : exec.events[k].duration > 0

\* C9 amended: a call that reaches querySelector and finds no element ends
\* with the not-found error thrown, exactly one TOOL_ERROR event whose
\* duration is the time since the call began (zero included), no TOOL_SUCCESS
\* and no click; a call that is declined before that returns the decline and
\* sends no TOOL_ERROR.
C9_NotFoundRethrown ==
    /\ (exec.pc = "done" /\ exec.found = "no") =>
          /\ exec.result = [kind |-> "thrown", error |-> "not-found"]
          /\ Cardinality(EventsOf("TOOL_ERROR")) = 1
          /\ \A k \in EventsOf("TOOL_ERROR") :
                /\ exec.events[k].error = "not-found"
                /\ exec.events[k].duration = exec.elapsed
                /\ exec.events[k].duration >= 0
          /\ EventsOf("TOOL_SUCCESS") = {}
          /\ \A k \in DOMAIN exec.dom : exec.dom[k].op # "click"
    /\ (exec.pc = "done" /\ exec.found = "n/a") =>
          /\ exec.result.kind = "returned" /\ exec.result.success = FALSE
          /\ EventsOf("TOOL_ERROR") = {}

\* A call found its element gone and reported the error with duration 0.
C9_Witness ==
    /\ exec.pc = "done" /\ exec.found = "no" /\ exec.goneAtCall
    /\ exec.result.kind = "thrown"
    /\ \E k \in EventsOf("TOOL_ERROR") : exec.events[k].duration = 0

\* C24: an invocation sends exactly one TOOL_ATTEMPT event, first of all: no
\* other event precedes it and, while the confirmation is awaited, nothing
\* else was sent and the document was not touched.  It then ends in exactly
\* one of three ways: a success result whose last event is the one
\* TOOL_SUCCESS, a thrown error whose last event is the one TOOL_ERROR, or the
\* decline result with neither; TOOL_SUCCESS and TOOL_ERROR never both occur.
C24_OneAttemptOneOutcome ==
    LET succ == Cardinality(EventsOf("TOOL_SUCCESS"))
        errs == Cardinality(EventsOf("TOOL_ERROR"))
        last == exec.events[Len(exec.events)]
    IN /\ exec.pc # "idle" =>
             /\ EventsOf("TOOL_ATTEMPT") = {1}
             /\ exec.events[1].toolName = exec.name
             /\ succ + errs <= 1
       /\ exec.pc = "confirm" =>
             /\ Len(exec.events) = 1 /\ exec.dom = <<>> /\ exec.result = NoResult
       /\ exec.pc = "done" =>
             \/ /\ exec.result.kind = "returned" /\ exec.result.success
                /\ succ = 1 /\ errs = 0 /\ last.type = "TOOL_SUCCESS"
             \/ /\ exec.result.kind = "thrown"
                /\ succ = 0 /\ errs = 1 /\ last.type = "TOOL_ERROR"
             \/ /\ exec.result.kind = "returned" /\ ~exec.result.success
                /\ exec.result.reason = "User denied destructive action."
                /\ succ = 0 /\ errs = 0 /\ exec.dom = <<>>

\* The user allowed a destructive tool whose button had left the document:
\* the call sent TOOL_ATTEMPT, USER_CONFIRMATION and TOOL_ERROR, and threw.
C24_Witness ==
    /\ exec.pc = "done" /\ exec.reply = "true"
    /\ exec.result.kind = "thrown"
    /\ Len(exec.events) = 3
    /\ exec.events[1].type = "TOOL_ATTEMPT"
    /\ exec.events[2].type = "USER_CONFIRMATION"
    /\ exec.events[3].type = "TOOL_ERROR"

(***************************************************************************)
(* Specification SpecSynth: fetchSchemas as init() and scan() call it      *)
(* (skipCache = false) on a page with an endpoint whose document stays as  *)
(* it is while its path changes through history.pushState.  synthLog has   *)
(* one entry for each call:                                                *)
(*   path, elems   the path and the nodes of the document at the call      *)
(*   requested     the call issued the remote request                      *)
(*   done, answered  the call has returned; its request got a successful,  *)
(*                 non-empty response                                      *)
(*   storedPath    the path its response was cached under, "" when it was  *)
(*                 not cached                                              *)
(*   age           milliseconds since the call began (up to the TTL + 1)   *)
(*   gaps, doneAt  age and done of the earlier calls when this one began   *)
(***************************************************************************)
InitSynth ==
    /\ InitCommon
    /\ hostPresent = TRUE
    /\ doc \in SUBSET {1}
    /\ storage \in {"ok", "unavailable"}

SynthStep == CACHE_TTL_MS

others == UNCHANGED <<regLog, obs, burst, gen, callLog>>

\* The entry of the call that has just been suspended as the last task.
Called ==
    IF Len(tasks') > Len(tasks)
    THEN Append(synthLog,
                [path |-> PathOf(href), elems |-> doc,
                 requested |-> (tasks'[Len(tasks')].wait = "net"),
                 done |-> FALSE, answered |-> FALSE, storedPath |-> "", age |-> 0,
                 gaps |-> [k \in DOMAIN synthLog |-> synthLog[k].age],
                 doneAt |-> [k \in DOMAIN synthLog |-> synthLog[k].done]])
    ELSE synthLog

\* The entry of the call suspended as task i.
EntryOf(i) ==
    CHOOSE k \in DOMAIN synthLog :
        /\ ~synthLog[k].done
        /\ Cardinality({m \in 1..k : ~synthLog[m].done}) = i

SyInit ==
    /\ SdkInit(Remote)
    /\ Len(tasks') > Len(tasks) => Len(synthLog) < MaxSynthCalls
    /\ synthLog' = Called
    /\ others

SyScan ==
    /\ SdkScan
    /\ Len(tasks') > Len(tasks) => Len(synthLog) < MaxSynthCalls
    /\ synthLog' = Called
    /\ others

SyResume ==
    \E i \in DOMAIN tasks, outcome \in RemoteOutcomes \ {"ai"}, throws \in BOOLEAN :
        /\ ResumeTask(i, outcome, throws)
        /\ LET k == EntryOf(i)
               answered == synthLog[k].requested /\ outcome \in {"ok", "ai"}
               stored == answered /\ storage = "ok" /\ ~throws
           IN synthLog' = [synthLog EXCEPT ![k] =
                  [@ EXCEPT !.done = TRUE,
                            !.answered = answered,
                            !.storedPath = IF stored THEN PathOf(href) ELSE ""]]
        /\ others

SyNavigate == \E u \in Urls : Navigate(u, FALSE) /\ synthLog' = synthLog /\ others

SyTick ==
    /\ Tick(SynthStep)
    /\ synthLog' = [k \in DOMAIN synthLog |->
          [synthLog[k] EXCEPT !.age = IF @ + SynthStep > CACHE_TTL_MS
                                      THEN CACHE_TTL_MS + 1 ELSE @ + SynthStep]]
    /\ others

NextSynth == SyInit \/ SyScan \/ SyResume \/ SyNavigate \/ SyTick

SpecSynth == InitSynth /\ [][NextSynth]_vars

\* Calls i < j for the same nodes on the same path, j begun within the TTL
\* of the beginning of i.
SamePageWithinTtl(i, j) ==
    /\ i < j
    /\ synthLog[i].path = synthLog[j].path
    /\ synthLog[i].elems = synthLog[j].elems
    /\ synthLog[j].gaps[i] <= CACHE_TTL_MS

\* C10 as stated: two calls for the same nodes on the same path within five
\* minutes issue at most one remote request, whatever became of the first.
C10_AtMostOneRequest ==
    \A i, j \in DOMAIN synthLog :
        SamePageWithinTtl(i, j) => ~(synthLog[i].requested /\ synthLog[j].requested)

\* C10 amended: of two calls for the same nodes on the same path within five
\* minutes the second issues no request when it begins after the first has
\* returned and the first's request got a successful, non-empty response that
\* was written to the cache under that path.
C10_CachedResponseIsReused ==
    \A i, j \in DOMAIN synthLog :
        (/\ SamePageWithinTtl(i, j)
         /\ synthLog[i].requested
         /\ synthLog[j].doneAt[i]
         /\ synthLog[i].answered
         /\ synthLog[i].storedPath = synthLog[j].path)
        => ~synthLog[j].requested

\* A first call's response was cached and a second call was served from it.
C10_Witness ==
    /\ Len(synthLog) >= 2
    /\ SamePageWithinTtl(1, 2)
    /\ synthLog[1].requested /\ synthLog[1].storedPath = synthLog[2].path
    /\ synthLog[1].answered
    /\ synthLog[2].doneAt[1]
    /\ synthLog[2].done /\ ~synthLog[2].requested

(***************************************************************************)
(* Specification SpecGen: fetchSchemas called directly, with skipCache and *)
(* endpoint of the caller's choice, for a list of scanned forms and        *)
(* buttons some of which carry data-tool-name / data-tool-description.     *)
(* gen is the call in progress or the last one finished:                   *)
(*   pc        "idle" | "pending" (awaiting fetch) | "done"                *)
(*   elements  the argument                                                *)
(*   src       where the result came from: cache, override, remote, local  *)
(*   outcome   what the remote request came to, "n/a" without one          *)
(*   threw     the call raised instead of returning                        *)
(*   schemas   the result                                                  *)
(***************************************************************************)
MaxGenLen == 2

FetchElem(type, what, oname, odesc) ==
    [type |-> type,
     id |-> IF type = "form" THEN "signup" ELSE Undef,
     selector |-> IF type = "form" THEN "#signup" ELSE "body > button",
     method |-> IF type = "form" THEN what ELSE Undef,
     inputs |-> IF type = "form" THEN <<"email">> ELSE <<>>,
     ariaLabel |-> Undef,
     textContent |-> IF type = "form" THEN Undef ELSE what,
     overrideName |-> oname, overrideDescription |-> odesc,
     overrideAnnotations |-> NoAnnotations]

FetchElems ==
    {FetchElem("form", m, n, d) :
        m \in {"POST", "DELETE"}, n \in {Undef, "custom_tool"}, d \in {Undef, "Custom description"}}
    \cup
    {FetchElem("button", t, n, d) :
        t \in {"Save", "Delete"}, n \in {Undef, "custom_tool"}, d \in {Undef, "Custom description"}}

\* The lists a caller passes; a later call passes the same list again.
FetchLists == UNION {[1..n -> FetchElems] : n \in 0..MaxGenLen}

InitGen ==
    /\ InitCommon
    /\ hostPresent = TRUE
    /\ doc = {}
    /\ storage = "ok"

genFrame ==
    UNCHANGED <<regVars, doc, href, storage, watchVars, sdkVars, loopVars,
                regLog, obs, burst, synthLog, exec, callLog>>

\* fetchSchemas(elements, endpoint, skipCache) up to its await.
GenCall ==
    \E elements \in (IF gen.pc = "done" THEN {gen.elements} ELSE FetchLists),
       endpoint \in {"", "api"}, skipCache \in BOOLEAN :
        /\ gen.pc # "pending"
        /\ LET fb == fetchBegin(elements, endpoint, skipCache, cache, storage, PathOf(href))
           IN /\ cache' = fb.cache
              /\ gen' = [pc |-> IF fb.wait = "net" THEN "pending" ELSE "done",
                         page |-> <<>>, elements |-> elements, skipCache |-> skipCache, src |-> fb.src,
                         outcome |-> "n/a", threw |-> FALSE, schemas |-> fb.ready]
        /\ genFrame

\* fetchSchemas after its await.
GenRespond ==
    \E outcome \in RemoteOutcomes, throws \in BOOLEAN :
        /\ gen.pc = "pending"
        /\ LET fe == fetchEnd(gen.elements, outcome, cache, storage, PathOf(href), throws)
           IN /\ cache' = fe.cache
              /\ gen' = [gen EXCEPT !.pc = "done", !.outcome = outcome,
                                    !.threw = fe.threw, !.schemas = fe.schemas]
        /\ genFrame

NextGen == GenCall \/ GenRespond

SpecGen == InitGen /\ [][NextGen]_vars

\* C11: fetchSchemas never raises, and a call whose remote request failed
\* (non-2xx status, empty list, timeout, network error) returns the local
\* schemas of its elements, one for each element.
C11_FailureFallsBackToLocal ==
    gen.pc = "done" =>
        /\ ~gen.threw
        /\ (gen.src = "remote" /\ gen.outcome \in {"status", "empty", "timeout", "network"}) =>
              /\ gen.schemas = generateLocalSchemas(gen.elements)
              /\ Len(gen.schemas) = Len(gen.elements)
              /\ \A i \in DOMAIN gen.schemas : gen.schemas[i].selector = gen.elements[i].selector

\* A request for MaxGenLen elements timed out and the call returned as many schemas.
C11_Witness ==
    /\ gen.pc = "done" /\ gen.src = "remote" /\ gen.outcome = "timeout"
    /\ Len(gen.elements) = MaxGenLen /\ Len(gen.schemas) = MaxGenLen

\* C12: in every result of fetchSchemas (local, remote or cached), the schema
\* of an element that carries data-tool-name has that name, and the schema of
\* an element that carries data-tool-description has that description.
C12_OverridesWin ==
    (gen.pc = "done" /\ ~gen.threw) =>
        \A i \in DOMAIN gen.schemas :
            /\ gen.elements[i].overrideName # Undef =>
                  gen.schemas[i].name = gen.elements[i].overrideName
            /\ gen.elements[i].overrideDescription # Undef =>
                  gen.schemas[i].description = <<gen.elements[i].overrideDescription>>

(***************************************************************************)
(* Specification SpecLocal: generateLocalSchemas applied to one scanned    *)
(* element of any shape the ScannedElement type admits.                    *)
(***************************************************************************)
OptionalAnnotations ==
    {NoAnnotations} \cup {Ann(f) : f \in UNION {[D -> BOOLEAN] : D \in SUBSET Hints}}

LocalForms ==
    [type : {"form"}, id : {Undef, "signup"}, selector : {"body > form"},
     method : {Undef, "GET", "POST", "PUT", "DELETE", "delete"},
     inputs : {<<>>, <<"email">>},
     ariaLabel : {Undef}, textContent : {Undef},
     overrideName : {Undef, "", "custom_tool"},
     overrideDescription : {Undef, "Custom description"},
     overrideAnnotations : OptionalAnnotations]

LocalButtons ==
    [type : {"button"}, id : {Undef, "save"}, selector : {"body > button"},
     method : {Undef}, inputs : {<<>>},
     ariaLabel : {Undef, "Search"},
     textContent : {Undef, "Save", "Delete", "Search", "Remove filter"},
     overrideName : {Undef, "", "custom_tool"},
     overrideDescription : {Undef, "Custom description"},
     overrideAnnotations : OptionalAnnotations]

InitLocal ==
    /\ InitBase
    /\ hostPresent = TRUE
    /\ doc = {}
    /\ storage = "ok"
    /\ \E el \in LocalForms \cup LocalButtons : gen = [NoGen EXCEPT !.elements = <<el>>]

\* generateLocalSchemas(elements)
LocalGenerate ==
    /\ gen.pc = "idle"
    /\ gen' = [gen EXCEPT !.pc = "done", !.src = "local",
                          !.schemas = generateLocalSchemas(gen.elements)]
    /\ UNCHANGED <<regVars, envVars, cache, watchVars, sdkVars, loopVars,
                   regLog, obs, burst, synthLog, exec, callLog>>

NextLocal == LocalGenerate

SpecLocal == InitLocal /\ [][NextLocal]_vars

\* C13: in a locally generated schema, each hint the element sets explicitly
\* has the element's value, whatever the form method or the button text
\* would have given.
C13_ExplicitHintsWin ==
    (gen.pc = "done" /\ gen.src = "local") =>
        \A i \in DOMAIN gen.schemas :
            LET given == gen.elements[i].overrideAnnotations
                got == gen.schemas[i].annotations
            IN given.present =>
                  \A h \in DOMAIN given.hints :
                      got.present /\ h \in DOMAIN got.hints /\ got.hints[h] = given.hints[h]

\* A DELETE form that sets destructiveHint to false keeps false.
C13_Witness ==
    /\ gen.pc = "done" /\ gen.src = "local"
    /\ gen.elements[1].type = "form" /\ gen.elements[1].method = "DELETE"
    /\ gen.elements[1].overrideAnnotations.present
    /\ "destructiveHint" \in DOMAIN gen.elements[1].overrideAnnotations.hints
    /\ ~gen.elements[1].overrideAnnotations.hints["destructiveHint"]
    /\ ~HintOf(gen.schemas[1].annotations, "destructiveHint")

\* C14: the local schema of a form without annotation overrides has
\* readOnlyHint for GET, destructiveHint for DELETE and openWorldHint for any
\* other verb, and takes its name and description from the overrides the
\* form carries.
C14_FormVerbDecidesHints ==
    (gen.pc = "done" /\ gen.src = "local") =>
        \A i \in DOMAIN gen.schemas :
            LET el == gen.elements[i]
                got == gen.schemas[i]
            IN (el.type = "form" /\ ~el.overrideAnnotations.present) =>
                  /\ el.method = "GET" => HintOf(got.annotations, "readOnlyHint")
                  /\ el.method \in {"DELETE", "delete"} =>
                        HintOf(got.annotations, "destructiveHint")
                  /\ el.method \in {"POST", "PUT"} => HintOf(got.annotations, "openWorldHint")
                  /\ el.overrideName # Undef => got.name = el.overrideName
                  /\ el.overrideDescription # Undef =>
                        got.description = <<el.overrideDescription>>

\* A DELETE form with both overrides and no annotation override.
C14_Witness ==
    /\ gen.pc = "done" /\ gen.src = "local"
    /\ gen.elements[1].type = "form" /\ gen.elements[1].method = "DELETE"
    /\ gen.elements[1].overrideName = "custom_tool"
    /\ gen.elements[1].overrideDescription = "Custom description"
    /\ ~gen.elements[1].overrideAnnotations.present
    /\ gen.schemas[1].name = "custom_tool"
    /\ HintOf(gen.schemas[1].annotations, "destructiveHint")

\* The annotations the generator infers for an element by itself.
Inferred(el) ==
    IF el.type = "form" THEN inferFormAnnotations(el.method) ELSE inferButtonAnnotations(el)

\* C23: annotation overrides apply flag by flag.  In the local schema of an
\* element that overrides some of the four hints, every hint it does not
\* override has the value inferred from the form method or the button text.
C23_UnsetHintsKeepInference ==
    (gen.pc = "done" /\ gen.src = "local") =>
        \A i \in DOMAIN gen.schemas :
            LET given == gen.elements[i].overrideAnnotations
                got == gen.schemas[i].annotations
                inferred == Inferred(gen.elements[i])
            IN given.present =>
                  \A h \in DOMAIN inferred.hints \ DOMAIN given.hints :
                      got.present /\ h \in DOMAIN got.hints /\ got.hints[h] = inferred.hints[h]

\* C30: the local schema of a button without annotation overrides has
\* destructiveHint when its accessible label or its visible text contains a
\* destructive word, otherwise readOnlyHint when its label or text contains a
\* read word, otherwise idempotentHint.
C30_ButtonWordsDecideHints ==
    (gen.pc = "done" /\ gen.src = "local") =>
        \A i \in DOMAIN gen.schemas :
            LET el == gen.elements[i]
                got == gen.schemas[i].annotations
                destructive == HasDestructiveWord(el.ariaLabel) \/ HasDestructiveWord(el.textContent)
                reads == HasReadOnlyWord(el.ariaLabel) \/ HasReadOnlyWord(el.textContent)
            IN (el.type = "button" /\ ~el.overrideAnnotations.present) =>
                  IF destructive THEN HintOf(got, "destructiveHint")
                  ELSE IF reads THEN HintOf(got, "readOnlyHint")
                  ELSE HintOf(got, "idempotentHint")

(***************************************************************************)
(* Specification SpecScan: scanDOM on a document of a few nodes that carry *)
(* data-tool-* attributes.  The source tree holds two scanner modules: the *)
(* three-pass one and packages/sdk/src/scanner.ts, the file that           *)
(* `import { scanDOM } from "./scanner"` of watcher.ts names.              *)
(*   gen.page      the nodes of the document in document order             *)
(*   gen.elements  the scan result                                         *)
(*   gen.src       the scanner module that ran                             *)
(***************************************************************************)
MaxPageLen == 2

PageNodes ==
    [tag : {"form"}, id : {"", "admin"}, ariaLabel : {Undef}, text : {""},
     method : {"post"}, fields : {<<>>}, inForm : {FALSE}, ignore : BOOLEAN,
     toolName : {Undef, "custom_tool"}, toolDescription : {Undef}, hintAttrs : {{}}]
    \cup
    [tag : {"button", "div"}, id : {"", "admin"}, ariaLabel : {Undef}, text : {"", "Save"},
     method : {""}, fields : {<<>>}, inForm : BOOLEAN, ignore : BOOLEAN,
     toolName : {Undef, "custom_tool"}, toolDescription : {Undef}, hintAttrs : {{}}]

\* Documents whose nodes have selectors of their own.
Pages ==
    {p \in UNION {[1..n -> PageNodes] : n \in 0..MaxPageLen} :
        \A i, j \in DOMAIN p : buildSelector(p[i]) = buildSelector(p[j]) => i = j}

InitScan ==
    /\ InitBase
    /\ hostPresent = TRUE
    /\ doc = {}
    /\ storage = "ok"
    /\ \E p \in Pages : gen = [NoGen EXCEPT !.page = p]

scanFrame ==
    UNCHANGED <<regVars, envVars, cache, watchVars, sdkVars, loopVars,
                regLog, obs, burst, synthLog, exec, callLog>>

\* scanDOM() of the three-pass module.
ScanThreePass ==
    /\ gen.pc = "idle"
    /\ gen' = [gen EXCEPT !.pc = "scanned", !.src = "three-pass",
                          !.elements = scanPage(gen.page)]
    /\ scanFrame

\* scanDOM() of packages/sdk/src/scanner.ts.
ScanPlain ==
    /\ gen.pc = "idle"
    /\ gen' = [gen EXCEPT !.pc = "scanned", !.src = "scanner.ts",
                          !.elements = scanPagePlain(gen.page)]
    /\ scanFrame

NextScan == ScanThreePass \/ ScanPlain

SpecScan == InitScan /\ [][NextScan]_vars

\* The nodes of the page that carry data-tool-ignore.
IgnoredSelectors(page) == {buildSelector(page[i]) : i \in {j \in DOMAIN page : page[j].ignore}}

\* C15: no node that carries data-tool-ignore is in a scan result, whatever
\* its tag, id, text or data-tool-name.
C15_IgnoredNeverScanned ==
    gen.pc = "scanned" =>
        IgnoredSelectors(gen.page) \cap SelectorsOf(gen.elements) = {}

\* The three passes of the three-pass module leave every ignored node out.
ThreePassHonoursIgnore ==
    (gen.pc = "scanned" /\ gen.src = "three-pass") =>
        IgnoredSelectors(gen.page) \cap SelectorsOf(gen.elements) = {}

\* C31: every element of a scan result has an identifying signal: an id, an
\* accessible label, a visible text or a name override.
C31_ScannedElementsAreIdentified ==
    gen.pc = "scanned" =>
        \A i \in DOMAIN gen.elements :
            LET el == gen.elements[i]
            IN \/ Truthy(el.id) \/ Truthy(el.ariaLabel)
               \/ Truthy(el.textContent) \/ Truthy(el.overrideName)

(***************************************************************************)
(* Specification SpecNoHost: the sessions of Spec, with scan(), in a       *)
(* browser without navigator.modelContext.                                 *)
(***************************************************************************)
\* The documents of these sessions: the buttons 1 and 2 come and go.
NhDocs == SUBSET {1, 2}

InitNoHost ==
    /\ InitCommon
    /\ hostPresent = FALSE
    /\ doc \in NhDocs
    /\ storage = "unavailable"

NhMutate == \E d \in NhDocs : Mutate(d) /\ obs' = ObsMutate(d) /\ Quiet
NhResume ==
    \E i \in DOMAIN tasks, outcome \in {"ok", "network"} :
        ResumeTask(i, outcome, FALSE) /\ obs' = ObsResume(i) /\ Quiet
NhInit == \E cfg \in {Remote, Local} : SdkInit(cfg) /\ obs' = ObsOther /\ Quiet
NhScan == SdkScan /\ obs' = ObsOther /\ Quiet

NextNoHost ==
    \/ NhMutate \/ DoTick \/ DoTimerFire
    \/ NhInit \/ NhScan \/ DoDestroy \/ NhResume

SpecNoHost == InitNoHost /\ [][NextNoHost]_vars

\* No init, scan or reconciliation is between its scan and its registration.
Idle == tasks = <<>>

\* C16: without navigator.modelContext the registry stays empty and no
\* register or unregister call reaches a host, while init and scan still
\* leave the last scan and its schemas in the accessors.
C16_NoHostNoRegistry ==
    ~hostPresent =>
        /\ registeredTools = EmptyMap
        /\ hostTools = EmptyMap
        /\ registerTools(registeredTools, hostTools, hostPresent,
                         generateLocalSchemas(scanDOM(doc)), {}).calls = <<>>
        /\ unregisterTools(registeredTools, hostTools, hostPresent, Selectors, {}).calls = <<>>
        /\ unregisterAllTools(registeredTools, hostTools, hostPresent, {}).calls = <<>>
        /\ (initialized /\ Idle /\ scannedElements # <<>>) =>
              /\ scannedElements \in {scanDOM(d) : d \in NhDocs}
              /\ registeredSchemas # <<>>
              /\ \A i \in DOMAIN registeredSchemas : registeredSchemas[i].selector \in Selectors

\* Without a host, init has scanned and synthesized two buttons, and the
\* watcher has reconciled a later change of the document.
C16_Witness ==
    /\ ~hostPresent /\ initialized /\ Idle
    /\ Len(scannedElements) = 2 /\ Len(registeredSchemas) = 2
    /\ observer /\ timers = {}
    /\ currentSelectors = SelectorsOf(scanDOM(doc))
    /\ currentSelectors # SelectorsOf(scannedElements)

(***************************************************************************)
(* Specification SpecWatch: the watcher module driven through its own      *)
(* exports, startWatching and stopWatching, while the document and the     *)
(* location change and its timers run.                                     *)
(*   callLog.op       "start" | "stop": the last of these calls            *)
(*   callLog.active   an observer was installed when it was made           *)
(*   callLog.differs  the configuration, the selectors and the location of *)
(*                    the call all differ from those the watcher held      *)
(*   callLog.changed  the call changed the watcher's state                 *)
(***************************************************************************)
InitWatch ==
    /\ InitCommon
    /\ hostPresent = TRUE
    /\ doc \in SUBSET {1}
    /\ storage = "unavailable"

\* What a call of startWatching or stopWatching may change.
WatcherState == <<observer, observers, timers, debounceTimer, currentSelectors, currentUrl, wconfig>>

watchFrame == UNCHANGED <<regVars, envVars, sdkVars, loopVars, regLog, obs, burst, synthLog, exec, gen>>

WStart ==
    \E cfg \in {Remote, Local}, d \in SUBSET {1} :
        /\ ~draining
        /\ startWatching(cfg, SelectorsOf(scanDOM(d)))
        /\ UNCHANGED <<timers, debounceTimer>>
        /\ callLog' = [op |-> "start", active |-> observer,
                        differs |-> /\ cfg # wconfig
                                    /\ SelectorsOf(scanDOM(d)) # currentSelectors
                                    /\ href # currentUrl,
                        changed |-> WatcherState' # WatcherState]
        /\ watchFrame

WStop ==
    /\ ~draining
    /\ stopWatching
    /\ UNCHANGED currentUrl
    /\ callLog' = [op |-> "stop", active |-> observer, differs |-> FALSE,
                    changed |-> WatcherState' # WatcherState]
    /\ watchFrame

WMutate == \E d \in SUBSET {1} : Mutate(d) /\ UNCHANGED <<regLog, obs, burst, synthLog, gen, callLog>>
WNavigate ==
    \E u \in Urls, fires \in BOOLEAN :
        Navigate(u, fires) /\ UNCHANGED <<regLog, obs, burst, synthLog, gen, callLog>>
WTick == Tick(DEBOUNCE_MS) /\ UNCHANGED <<regLog, obs, burst, synthLog, gen, callLog>>
WTimerFire ==
    \E t \in timers : TimerFire(t) /\ UNCHANGED <<regLog, obs, burst, synthLog, gen, callLog>>
WResume ==
    \E i \in DOMAIN tasks, outcome \in {"ok"} :
        ResumeTask(i, outcome, FALSE) /\ UNCHANGED <<regLog, obs, burst, synthLog, gen, callLog>>

NextWatch == WStart \/ WStop \/ WMutate \/ WNavigate \/ WTick \/ WTimerFire \/ WResume

SpecWatch == InitWatch /\ [][NextWatch]_vars

\* C17: startWatching called while an observer is installed changes nothing
\* (selectors, configuration, location, timers, observer), and there is never
\* more than one observer on the document.
C17_StartWhileActiveIsNoOp ==
    /\ observers = (IF observer THEN 1 ELSE 0)
    /\ (callLog.op = "start" /\ callLog.active) => ~callLog.changed

\* startWatching was called on an active watcher with another configuration
\* and other selectors than it holds.
C17_Witness ==
    /\ callLog.op = "start" /\ callLog.active /\ callLog.differs
    /\ ~callLog.changed
    /\ observer /\ observers = 1 /\ timers # {}

(***************************************************************************)
(* Specification SpecInit: init called again and again, with one           *)
(* configuration or another, while the pipeline of an earlier call may     *)
(* still await its schemas.                                                *)
(*   callLog.op       "init"                                               *)
(*   callLog.active   the SDK was initialized when the call was made       *)
(*   callLog.differs  the call brought another configuration than the SDK  *)
(*                    holds                                                *)
(*   callLog.changed  the call changed the state of the SDK, the watcher,  *)
(*                    the registrar, the cache or the suspended pipelines  *)
(***************************************************************************)
InitInit ==
    /\ InitCommon
    /\ hostPresent = TRUE
    /\ doc \in SUBSET {1}
    /\ storage = "unavailable"

ProgramState == <<regVars, envVars, watchVars, sdkVars, loopVars>>

IInit ==
    \E cfg \in {Remote, Local} :
        /\ SdkInit(cfg)
        /\ callLog' = [op |-> "init", active |-> initialized, differs |-> cfg # config,
                       changed |-> ProgramState' # ProgramState]
        /\ UNCHANGED <<regLog, obs, burst, synthLog, gen>>

IMutate == \E d \in SUBSET {1} : Mutate(d) /\ UNCHANGED <<regLog, obs, burst, synthLog, gen, callLog>>
ITick == Tick(DEBOUNCE_MS) /\ UNCHANGED <<regLog, obs, burst, synthLog, gen, callLog>>
ITimerFire ==
    \E t \in timers : TimerFire(t) /\ UNCHANGED <<regLog, obs, burst, synthLog, gen, callLog>>
IResume ==
    \E i \in DOMAIN tasks, outcome \in {"ok", "network"} :
        ResumeTask(i, outcome, FALSE) /\ UNCHANGED <<regLog, obs, burst, synthLog, gen, callLog>>
IDestroy == SdkDestroy /\ UNCHANGED <<regLog, obs, burst, synthLog, gen, callLog>>

NextInit == IInit \/ IMutate \/ ITick \/ ITimerFire \/ IResume \/ IDestroy

SpecInit == InitInit /\ [][NextInit]_vars

\* C18: init called while the SDK is initialized, also while the pipeline of
\* the first call awaits its schemas, changes nothing: no scan, no request,
\* no registration, no watcher, and the configuration stays.
C18_InitAgainIsNoOp ==
    (callLog.op = "init" /\ callLog.active) => ~callLog.changed

\* init came with another configuration while the first call awaited the
\* answer of the schema service.
C18_Witness ==
    /\ callLog.op = "init" /\ callLog.active /\ callLog.differs /\ ~callLog.changed
    /\ initialized /\ ~observer
    /\ \E i \in DOMAIN tasks : tasks[i].kind = "init" /\ tasks[i].wait = "net"

(***************************************************************************)
(* Specification SpecRescan: init and then scan() on a page whose buttons  *)
(* come and go, with localStorage at hand.  The debounce of the watcher    *)
(* has not run out yet, so that the registry only grows.                   *)
(*   callLog.op    "scan"                                                  *)
(*   callLog.doc   the nodes in the document when scan() was called        *)
(*   callLog.done  the promise of that call is resolved                    *)
(***************************************************************************)
InitRescan ==
    /\ InitCommon
    /\ hostPresent = TRUE
    /\ doc \in NhDocs
    /\ storage = "ok"

RInit ==
    \E cfg \in {Remote, Local} :
        SdkInit(cfg) /\ UNCHANGED <<regLog, obs, burst, synthLog, gen, callLog>>

RScan ==
    /\ SdkScan
    /\ callLog' = IF initialized /\ config # NoConfig
                  THEN [op |-> "scan", doc |-> doc, done |-> FALSE]
                  ELSE callLog
    /\ UNCHANGED <<regLog, obs, burst, synthLog, gen>>

RMutate == \E d \in NhDocs : Mutate(d) /\ UNCHANGED <<regLog, obs, burst, synthLog, gen, callLog>>

RResume ==
    \E i \in DOMAIN tasks, outcome \in {"ok", "network"} :
        /\ ResumeTask(i, outcome, FALSE)
        /\ callLog' = IF tasks[i].kind = "scan" THEN [callLog EXCEPT !.done = TRUE]
                      ELSE callLog
        /\ UNCHANGED <<regLog, obs, burst, synthLog, gen>>

NextRescan == RInit \/ RScan \/ RMutate \/ RResume

SpecRescan == InitRescan /\ [][NextRescan]_vars

\* C19: once scan() has resolved, every button that was in the document when
\* it was called has a registered tool.
C19_ScanRegistersEveryElement ==
    (callLog.op = "scan" /\ callLog.done) =>
        \A e \in callLog.doc :
            \E n \in DOMAIN registeredTools : registeredTools[n] = buildSelector(NodeOf(e))

\* C20: when the host's registerTool throws for a schema of the list,
\* registerTools still returns, that schema's name does not enter the
\* registry, and every later schema of the list is registered or at least
\* handed to the host.
C20_ThrowDoesNotBlockTheRest ==
    (regLog.op = "register" /\ hostPresent) =>
        LET calls == regLog.calls
            arg == regLog.arg
            CallsFor(n) == {k \in DOMAIN calls : calls[k].name = n}
        IN /\ ~regLog.threw
           /\ \A k \in DOMAIN calls :
                (~calls[k].ok /\ \A j \in CallsFor(calls[k].name) : ~calls[j].ok) =>
                    ~Has(registeredTools, calls[k].name)
           /\ \A i \in DOMAIN arg :
                \/ Has(registeredTools, arg[i].name)
                \/ CallsFor(arg[i].name) # {}

\* The host threw for the first of two schemas and took the second.
C20_Witness ==
    /\ regLog.op = "register" /\ hostPresent
    /\ Len(regLog.arg) = 2 /\ regLog.arg[1].name # regLog.arg[2].name
    /\ Len(regLog.calls) = 2 /\ ~regLog.calls[1].ok /\ regLog.calls[2].ok
    /\ ~Has(registeredTools, regLog.arg[1].name)
    /\ Has(registeredTools, regLog.arg[2].name)
    /\ Has(hostTools, regLog.arg[2].name)

(***************************************************************************)
(* unregisterTools and unregisterAllTools under SpecReg.                   *)
(***************************************************************************)
\* The names the last call's argument selects in the registry before it.
Selected == {n \in DOMAIN regLog.pre : \E i \in DOMAIN regLog.arg : regLog.pre[n] = regLog.arg[i]}

\* C21 as stated: unregister(selectors) removes every registry entry whose
\* selector is in the given set and leaves every other entry unchanged.
C21_UnregisterRemovesSelected ==
    regLog.op = "unregister" => registeredTools = Drop(regLog.pre, Selected)

\* C21 amended: with the host runtime present, unregister(selectors) calls the
\* host once for every registry entry whose selector is in the set and for no
\* other; it removes the entry when that call returns and keeps it when that
\* call throws; every other entry is unchanged, nothing propagates, and with
\* selectors that match no entry there is no host call, no event and no change.
C21_UnregisterRemovesUnlessHostThrows ==
    regLog.op = "unregister" =>
        LET calls == regLog.calls
            CallsOf(n) == {k \in DOMAIN calls : calls[k].name = n}
            Thrown == {n \in Selected : \E k \in CallsOf(n) : ~calls[k].ok}
        IN /\ ~regLog.threw
           /\ \A k \in DOMAIN calls : calls[k].op = "unregisterTool" /\ calls[k].name \in Selected
           /\ \A n \in Selected : Cardinality(CallsOf(n)) = 1
           /\ registeredTools = Drop(regLog.pre, Selected \ Thrown)
           /\ Len(regLog.events) = Cardinality(Selected \ Thrown)
           /\ Selected = {} =>
                /\ calls = <<>> /\ regLog.events = <<>>
                /\ registeredTools = regLog.pre

\* A call selected both entries of the registry; the host threw for one, which
\* stays, and the other is gone.
C21_Witness ==
    /\ regLog.op = "unregister"
    /\ Cardinality(Selected) = 2
    /\ \E j, k \in DOMAIN regLog.calls :
          /\ ~regLog.calls[j].ok /\ Has(registeredTools, regLog.calls[j].name)
          /\ regLog.calls[k].ok /\ ~Has(registeredTools, regLog.calls[k].name)

\* C22: after unregisterAllTools() returns the registry is empty, also when
\* host unregisterTool calls throw; the host was called once for every entry
\* the registry had, and nothing propagates to the caller.
C22_UnregisterAllEmptiesRegistry ==
    regLog.op = "unregisterAll" =>
        /\ registeredTools = EmptyMap
        /\ ~regLog.threw
        /\ {regLog.calls[k].name : k \in DOMAIN regLog.calls} = DOMAIN regLog.pre
        /\ Len(regLog.calls) = Cardinality(DOMAIN regLog.pre)

\* unregisterAllTools() ran on a registry of two tools and the host threw for
\* the first of its calls.
C22_Witness ==
    /\ regLog.op = "unregisterAll"
    /\ Cardinality(DOMAIN regLog.pre) = 2
    /\ Len(regLog.calls) = 2 /\ ~regLog.calls[1].ok
    /\ registeredTools = EmptyMap

(***************************************************************************)
(* Specification SpecDelta: a page initialized with an endpoint and with   *)
(* localStorage at hand, whose watcher reconciles its buttons while they   *)
(* come and go.  Time passes in steps of the TTL.  callLog follows one     *)
(* handleDOMChange from its start to its end:                              *)
(*   fresh     the last step was a step of this handleDOMChange            *)
(*   tracked, pre   currentSelectors and the registry when it began        *)
(*   scan, added, removed   the selectors of its scan and of its diff      *)
(*   steps     the events it sent and the calls it made, in order          *)
(*   gone      the names its unregisterTools call took out of the registry *)
(*   got       name and selector of the descriptors fetchSchemas gave it   *)
(*   again     the names other code registered while it awaited them       *)
(*   at        its place in tasks while it awaits fetchSchemas, else 0     *)
(*   done      it has run to its end                                       *)
(*   changed   localStorage was not the same after its fetchSchemas call   *)
(*             as before                                                   *)
(***************************************************************************)
\* Documents of the buttons 1 (#save) and 3 (body > button), both named "save".
RecDocs == SUBSET {1, 3}

InitDelta ==
    /\ InitCommon
    /\ hostPresent = TRUE
    /\ doc \in RecDocs
    /\ storage = "ok"

deltaFrame == UNCHANGED <<regLog, obs, burst, synthLog, gen>>

\* Another piece of code ran; while the handleDOMChange awaits its
\* descriptors, the names that code registered are noted.
Stale ==
    IF callLog.op # "rec" THEN callLog
    ELSE [callLog EXCEPT
            !.fresh = FALSE,
            !.again = IF callLog.at = 0 THEN @
                      ELSE @ \cup {n \in DOMAIN registeredTools' :
                                     ~Has(registeredTools, n)
                                     \/ registeredTools'[n] # registeredTools[n]}]

PairsOf(schemas) == {<<schemas[i].name, schemas[i].selector>> : i \in DOMAIN schemas}

RegisterStep(schemas) == [op |-> "registerTools", arg |-> PairsOf(schemas)]

DlInit == \E cfg \in {Remote} : SdkInit(cfg) /\ deltaFrame /\ callLog' = Stale
DlDestroy == SdkDestroy /\ deltaFrame /\ callLog' = Stale
DlMutate == \E d \in RecDocs : Mutate(d) /\ deltaFrame /\ callLog' = Stale
DlTick == Tick(SynthStep) /\ deltaFrame /\ callLog' = Stale

DlTimerFire ==
    \E t \in timers :
        /\ TimerFire(t)
        /\ deltaFrame
        /\ LET allElements == scanDOM(doc)
               d == diffSelectors(allElements, currentSelectors)
               fb == fetchBegin(d.added, wconfig.endpoint, TRUE, cache, storage, PathOf(href))
               ends == (tasks' = tasks)
               registers == ends /\ Len(d.added) > 0
           IN callLog' =
                IF wconfig = NoConfig \/ (callLog.op = "rec" /\ callLog.at > 0)
                THEN Stale
                ELSE [op |-> "rec", fresh |-> TRUE,
                      tracked |-> currentSelectors, pre |-> registeredTools,
                      scan |-> SelectorsOf(allElements),
                      added |-> SelectorsOf(d.added), removed |-> d.removedSelectors,
                      steps |-> stepsOfChange(t.reason)
                                \o (IF registers THEN <<RegisterStep(fb.ready)>> ELSE <<>>),
                      gone |-> IF d.removedSelectors # {}
                               THEN DOMAIN registeredTools
                                    \ DOMAIN unregisterTools(registeredTools, hostTools, hostPresent,
                                                             d.removedSelectors, {}).reg
                               ELSE {},
                      got |-> IF registers THEN PairsOf(fb.ready) ELSE {},
                      again |-> {},
                      at |-> IF ends THEN 0 ELSE Len(tasks'),
                      done |-> ends,
                      changed |-> (cache' # cache)]

DlResume ==
    \E i \in DOMAIN tasks, outcome \in {"ok"} :
        /\ ResumeTask(i, outcome, FALSE)
        /\ deltaFrame
        /\ callLog' =
             IF callLog.op = "rec" /\ callLog.at = i
             THEN LET got == Resumed(tasks[i], outcome, FALSE)
                  IN [callLog EXCEPT !.fresh = TRUE, !.done = TRUE, !.at = 0,
                                     !.steps = Append(@, RegisterStep(got.schemas)),
                                     !.got = PairsOf(got.schemas),
                                     !.changed = (@ \/ cache' # cache)]
             ELSE IF callLog.op = "rec" /\ callLog.at > i
             THEN [Stale EXCEPT !.at = @ - 1]
             ELSE Stale

NextDelta == DlInit \/ DlDestroy \/ DlMutate \/ DlTick \/ DlTimerFire \/ DlResume

SpecDelta == InitDelta /\ [][NextDelta]_vars

\* The same page without localStorage.
InitRec ==
    /\ InitCommon
    /\ hostPresent = TRUE
    /\ doc \in RecDocs
    /\ storage = "unavailable"

SpecRec == InitRec /\ [][NextDelta]_vars

StepsOf(op) == {k \in DOMAIN callLog.steps : callLog.steps[k].op = op}

\* C25: fetchSchemas called with skipCache = true, as the watcher calls it for
\* added elements, neither reads nor writes the cache: localStorage is after
\* the call what it was before it.
C25_DeltaLeavesCacheAlone ==
    (callLog.op = "rec" /\ StepsOf("fetchSchemas") # {}) => ~callLog.changed

C27_DiffAndTrackedSet ==
    callLog.op = "rec" =>
        /\ callLog.added = callLog.scan \ callLog.tracked
        /\ callLog.removed = callLog.tracked \ callLog.scan
        /\ \A k \in StepsOf("trackEvent") :
              /\ callLog.steps[k].added = Cardinality(callLog.scan \ callLog.tracked)
              /\ callLog.steps[k].removed = Cardinality(callLog.tracked \ callLog.scan)
        /\ \A k \in StepsOf("unregisterTools") : callLog.steps[k].arg = callLog.removed
        /\ \A k \in StepsOf("fetchSchemas") : callLog.steps[k].arg = callLog.added
        /\ (callLog.fresh /\ callLog.done) => currentSelectors = callLog.scan

\* A reconciliation with one added and one removed selector has run to its
\* end after awaiting its descriptors.
C27_Witness ==
    /\ callLog.op = "rec" /\ callLog.fresh /\ callLog.done
    /\ Cardinality(callLog.added) = 1 /\ Cardinality(callLog.removed) = 1
    /\ StepsOf("fetchSchemas") # {}
    /\ currentSelectors = callLog.scan /\ currentSelectors # callLog.tracked

\* C28: a reconciliation whose scan has exactly the tracked selectors sends
\* no DOM_MUTATION event, does not call fetchSchemas, registerTools or
\* unregisterTools, awaits nothing, and leaves the registry and the tracked
\* selectors as they were.
C28_NothingChangedNoWork ==
    (callLog.op = "rec" /\ callLog.fresh /\ callLog.scan = callLog.tracked) =>
        /\ callLog.steps = <<>>
        /\ callLog.done /\ callLog.at = 0
        /\ callLog.got = {} /\ callLog.gone = {}
        /\ registeredTools = callLog.pre
        /\ currentSelectors = callLog.tracked

\* The debounce ran out on a document that was changed and changed back: the
\* scan found the tracked button and the registry still holds its tool.
C28_Witness ==
    /\ callLog.op = "rec" /\ callLog.fresh
    /\ callLog.scan = callLog.tracked /\ callLog.tracked # {}
    /\ callLog.steps = <<>>
    /\ registeredTools # EmptyMap /\ registeredTools = callLog.pre

\* C33: a destructive tool invoked with a client that offers
\* requestUserInteraction touches the document only after the confirmation
\* request returned true, and so not when the request failed.
C33_InteractionOnlyAfterTrue ==
    (exec.pc # "idle" /\ exec.destructive /\ exec.client = "asks" /\ exec.dom # <<>>) =>
        exec.reply = "true"

\* The elements whose local descriptor has this name and this selector: what
\* a registered tool was synthesized from.
OriginOf(name, selector) ==
    {e \in Elems :
        LET schema == generateLocalSchemas(scanDOM({e}))[1]
        IN schema.name = name /\ schema.selector = selector}

\* The elements of document d that document.querySelector(selector) yields.
ActedOn(d, selector) == {e \in d : scanDOM({e})[1].selector = selector}

\* C34: a call of a registered tool that finds an element for its selector,
\* made when no reconciliation is pending or in flight and the watcher's
\* tracked selectors are those of the document, acts on the element
\* the descriptor was synthesized from, also after that element was replaced
\* by another one at the same position.
C34_ActsOnOriginElement ==
    [][(/\ exec'.pc = "done" /\ exec.pc # "done"
        /\ exec'.found = "yes"
        /\ timers = {} /\ tasks = <<>>
        /\ observer /\ currentSelectors = SelectorsOf(scanDOM(doc)))
       => ActedOn(doc, exec'.selector) \subseteq OriginOf(exec'.name, exec'.selector)]_vars

(***************************************************************************)
(* Specification SpecSel: buildSelector and querySelector on a <body>      *)
(* whose children are buttons, with repeated ids and with siblings of the  *)
(* same tag.  A selector is kept by its parts:                             *)
(*   id    "#id" when the node has an id, then tag = "" and nth = 0        *)
(*   tag   "body > tag" when nth = 0, "body > tag:nth-of-type(nth)" else   *)
(*   gen.page      the children of body in document order                  *)
(*   gen.elements  the scan result, one element for each child             *)
(***************************************************************************)
SelNodes ==
    [tag : {"button"}, id : {"", "admin", "signup", "save"}, ariaLabel : {Undef},
     text : {"Save", "Delete"}, method : {""}, fields : {<<>>}, inForm : {FALSE},
     ignore : {FALSE}, toolName : {Undef}, toolDescription : {Undef}, hintAttrs : {{}}]

SelPages == UNION {[1..n -> SelNodes] : n \in 0..MaxPageLen}

\* The children of the parent that have the tag of child i, in order.
siblings(page, i) == {j \in DOMAIN page : page[j].tag = page[i].tag}

\* buildSelector(el) for child i of body.
buildSelectorAt(page, i) ==
    IF page[i].id # "" THEN [id |-> page[i].id, tag |-> "", nth |-> 0]
    ELSE IF Cardinality(siblings(page, i)) = 1
    THEN [id |-> "", tag |-> page[i].tag, nth |-> 0]
    ELSE [id |-> "", tag |-> page[i].tag,
          nth |-> Cardinality({j \in siblings(page, i) : j <= i})]

\* Whether child j of body matches the selector.
matches(page, j, sel) ==
    IF sel.id # "" THEN page[j].id = sel.id
    ELSE /\ page[j].tag = sel.tag
         /\ sel.nth = 0 \/ Cardinality({k \in siblings(page, j) : k <= j}) = sel.nth

\* document.querySelector(selector): the first match in document order, 0
\* for null.
querySelector(page, sel) ==
    LET hits == {j \in DOMAIN page : matches(page, j, sel)}
    IN IF hits = {} THEN 0 ELSE CHOOSE j \in hits : \A k \in hits : j <= k

InitSel ==
    /\ InitBase
    /\ hostPresent = TRUE
    /\ doc = {}
    /\ storage = "ok"
    /\ \E p \in SelPages : gen = [NoGen EXCEPT !.page = p]

\* scanDOM() on the page: every child is a button with a text.
ScanLocated ==
    /\ gen.pc = "idle"
    /\ gen' = [gen EXCEPT
                 !.pc = "located", !.src = "three-pass",
                 !.elements = [i \in DOMAIN gen.page |->
                                 [scanButtons(<<gen.page[i]>>)[1] EXCEPT
                                     !.selector = buildSelectorAt(gen.page, i)]]]
    /\ scanFrame

NextSel == ScanLocated

SpecSel == InitSel /\ [][NextSel]_vars

\* C32: the selector of every scanned element, resolved in the document that
\* was scanned, yields that element, so that two scanned elements never have
\* the same selector.
C32_SelectorResolvesToItsElement ==
    gen.pc = "located" =>
        /\ \A i \in DOMAIN gen.elements :
              querySelector(gen.page, gen.elements[i].selector) = i
        /\ \A i, j \in DOMAIN gen.elements :
              gen.elements[i].selector = gen.elements[j].selector => i = j

(***************************************************************************)
(* Specification SpecOverlap: the page of SpecRec, never destroyed, with   *)
(* callLog following two reconciliations that overlap:                     *)
(*   phase      "one": a handleDOMChange awaits its descriptors;           *)
(*              "two": a second one began meanwhile; "void": a third did   *)
(*   first      the selectors the first one scanned, later those of the    *)
(*              second; at, lat are their places in tasks, 0 when not      *)
(*              suspended; firstDone, laterDone tell which have ended      *)
(*   fresh      the step just taken ended the one that was still running   *)
(***************************************************************************)
LapOpen == callLog.op = "lap" /\ callLog.phase \in {"one", "two"} /\ ~callLog.firstDone

LapStale == IF callLog.op # "lap" THEN callLog ELSE [callLog EXCEPT !.fresh = FALSE]

OvInit == \E cfg \in {Remote} : SdkInit(cfg) /\ deltaFrame /\ callLog' = LapStale
OvMutate == \E d \in RecDocs : Mutate(d) /\ deltaFrame /\ callLog' = LapStale
OvTick == Tick(SynthStep) /\ deltaFrame /\ callLog' = LapStale

OvTimerFire ==
    \E t \in timers :
        /\ TimerFire(t)
        /\ deltaFrame
        /\ LET scan == SelectorsOf(scanDOM(doc))
               ends == (tasks' = tasks)
           IN callLog' =
                IF wconfig = NoConfig THEN LapStale
                ELSE IF LapOpen /\ callLog.phase = "one"
                THEN [callLog EXCEPT !.phase = "two", !.fresh = FALSE, !.later = scan,
                                     !.lat = IF ends THEN 0 ELSE Len(tasks'),
                                     !.laterDone = ends]
                ELSE IF callLog.op = "lap" /\ callLog.phase = "two"
                        /\ ~(callLog.firstDone /\ callLog.laterDone)
                THEN [callLog EXCEPT !.phase = "void", !.fresh = FALSE]
                ELSE IF ends THEN LapStale
                ELSE [op |-> "lap", phase |-> "one", fresh |-> FALSE,
                      first |-> scan, later |-> {}, at |-> Len(tasks'), lat |-> 0,
                      firstDone |-> FALSE, laterDone |-> FALSE]

OvResume ==
    \E i \in DOMAIN tasks, outcome \in {"ok"} :
        /\ ResumeTask(i, outcome, FALSE)
        /\ deltaFrame
        /\ LET shift(k) == IF k > i THEN k - 1 ELSE k
           IN callLog' =
                IF callLog.op # "lap" THEN callLog
                ELSE IF callLog.at = i
                THEN [callLog EXCEPT !.firstDone = TRUE, !.at = 0, !.lat = shift(@),
                                     !.fresh = (callLog.phase = "two" /\ callLog.laterDone)]
                ELSE IF callLog.lat = i
                THEN [callLog EXCEPT !.laterDone = TRUE, !.lat = 0, !.at = shift(@),
                                     !.fresh = callLog.firstDone]
                ELSE [callLog EXCEPT !.fresh = FALSE, !.at = shift(@), !.lat = shift(@)]

NextOverlap == OvInit \/ OvMutate \/ OvTick \/ OvTimerFire \/ OvResume

SpecOverlap == InitRec /\ [][NextOverlap]_vars

\* C35: when a reconciliation began while another one awaited its
\* descriptors, then once both have ended the tracked selector set is the
\* selector set of the scan of the one that began later, whichever ended last.
C35_LaterScanIsTracked ==
    (/\ callLog.op = "lap" /\ callLog.phase = "two"
     /\ callLog.firstDone /\ callLog.laterDone /\ callLog.fresh)
        => currentSelectors = callLog.later

\* C36: from the return of destroy() to the next init(), that is while the
\* SDK is not initialized, the watcher is not active, also when destroy() was
\* called while init awaited its descriptors.
C36_NoWatcherAfterDestroy == ~initialized => ~observer

\* C37: once init(config) with a site identifier has completed and destroy()
\* was not called since, the watcher is active, also when the initial scan
\* found no element.
C37_WatcherActiveAfterInit ==
    (initialized /\ \A i \in DOMAIN tasks : tasks[i].kind # "init") => observer

\* The names of the descriptors of the elements now in the document that no
\* other such element shares.
UniqueNames ==
    LET schemas == generateLocalSchemas(scanDOM(doc))
    IN {schemas[i].name : i \in {k \in DOMAIN schemas :
                                   \A j \in DOMAIN schemas : schemas[j].name = schemas[k].name => j = k}}

\* C38: with the host present, once the watcher is active, no debounce timer
\* is pending and no pipeline is in flight, every element of the document
\* whose descriptor name is unique among the elements now in the document has
\* a registry entry, also when its registration was skipped while an element
\* that has since been removed held the name.
C38_UniqueNamesGetRegistered ==
    (/\ hostPresent /\ initialized /\ observer
     /\ timers = {} /\ tasks = <<>> /\ ~draining)
        => \A n \in UniqueNames : Has(registeredTools, n)

(***************************************************************************)
(* Specification SpecNames: a page without localStorage whose schema       *)
(* service answers a request with the names of its own generator ("ok") or *)
(* with names a model wrote ("ai"), while the page calls init and scan.    *)
(***************************************************************************)
InitNames ==
    /\ InitCommon
    /\ hostPresent = TRUE
    /\ doc \in NhDocs
    /\ storage = "unavailable"

NmInit == SdkInit(Remote) /\ still
NmScan == SdkScan /\ still
NmMutate == \E d \in NhDocs : Mutate(d) /\ still
NmResume == \E i \in DOMAIN tasks, outcome \in {"ok", "ai"} : ResumeTask(i, outcome, FALSE) /\ still

NextNames == NmInit \/ NmScan \/ NmMutate \/ NmResume

SpecNames == InitNames /\ [][NextNames]_vars

\* C39: no two registry entries map to the same selector.
C39_OneToolPerSelector ==
    \A n, m \in DOMAIN registeredTools :
        registeredTools[n] = registeredTools[m] => n = m

(***************************************************************************)
(* Specification SpecEvents: the calls of SpecReg, with callLog.live the   *)
(* names whose last registrar event so far is TOOL_REGISTERED.             *)
(***************************************************************************)
Live == IF callLog.op = "events" THEN callLog.live ELSE {}

RECURSIVE AfterEvents(_, _)
AfterEvents(live, events) ==
    IF events = <<>> THEN live
    ELSE LET ev == Head(events)
         IN AfterEvents(IF ev[1] = "TOOL_REGISTERED" THEN live \cup {ev[2]}
                        ELSE IF ev[1] = "TOOL_UNREGISTERED" THEN live \ {ev[2]}
                        ELSE live,
                        Tail(events))

evFrame == UNCHANGED <<hostPresent, envVars, watchVars, sdkVars, loopVars, obs, burst, synthLog,
                       exec, gen>>

EvRegister ==
    \E schemas \in SchemaLists : \E fail \in SUBSET (1..Len(schemas)) :
        LET r == registerTools(registeredTools, hostTools, hostPresent, schemas, fail)
        IN /\ registeredTools' = r.reg
           /\ hostTools' = r.host
           /\ regLog' = [op |-> "register", pre |-> registeredTools, arg |-> schemas,
                         calls |-> r.calls, events |-> r.events, threw |-> r.threw]
           /\ callLog' = [op |-> "events", live |-> AfterEvents(Live, r.events)]
           /\ evFrame

EvUnregister ==
    \E sels \in SUBSET Selectors : \E fail \in SUBSET (DOMAIN registeredTools) :
        LET r == unregisterTools(registeredTools, hostTools, hostPresent, sels, fail)
        IN /\ registeredTools' = r.reg
           /\ hostTools' = r.host
           /\ regLog' = [op |-> "unregister", pre |-> registeredTools, arg |-> SeqOfSet(sels),
                         calls |-> r.calls, events |-> r.events, threw |-> r.threw]
           /\ callLog' = [op |-> "events", live |-> AfterEvents(Live, r.events)]
           /\ evFrame

EvUnregisterAll ==
    \E fail \in SUBSET (DOMAIN registeredTools) :
        LET r == unregisterAllTools(registeredTools, hostTools, hostPresent, fail)
        IN /\ registeredTools' = r.reg
           /\ hostTools' = r.host
           /\ regLog' = [op |-> "unregisterAll", pre |-> registeredTools, arg |-> <<>>,
                         calls |-> r.calls, events |-> r.events, threw |-> r.threw]
           /\ callLog' = [op |-> "events", live |-> AfterEvents(Live, r.events)]
           /\ evFrame

NextEvents == EvRegister \/ EvUnregister \/ EvUnregisterAll

SpecEvents == InitReg /\ [][NextEvents]_vars

\* C40: between registrar operations, the names with a TOOL_REGISTERED event
\* that no TOOL_UNREGISTERED event for the same name follows are the names of
\* the registry, also after unregisterAllTools().
C40_EventsMirrorRegistry == Live = DOMAIN registeredTools

====
